---- MODULE Spec2Model ----
(***************************************************************************)
(* Model of the harvest-and-validate pipeline of scrapper-homecare:        *)
(*   - CruzBlancaScraper.get_summary_table_data_and_process,               *)
(*     process_detail_table, validate_and_retry_downloads and              *)
(*     final_validation (src/scraper/cruzblanca.py);                       *)
(*   - the gate between scraping and extraction in                         *)
(*     ProcessOrchestrator.run_full_process (src/scraper/orchestrator.py)  *)
(*     and run_pipeline / run_pipeline_with_state (src/api/tasks.py);      *)
(*   - the job ids and paths of the API (src/api/main.py, tasks.py), the   *)
(*     session registry (src/api/remote_orchestrator.py), the summary and  *)
(*     its validators (src/scraper/extractor.py, pdf_validator.py), the    *)
(*     section and amount parsers (src/scraper/pdf_parser.py) and the      *)
(*     viewer slots (src/docker_manager/docker_manager_api.py).            *)
(* The specifications share the variables: Spec (one harvest pass),        *)
(* SpecFV (final_validation's arithmetic over record counts), SpecPipe     *)
(* (the three pipeline drivers), SpecJobs (jobs and the paths they         *)
(* write), SpecSessions (the session registry), SpecExt (one document      *)
(* through extraction and validation), SpecSection (one detail section),   *)
(* SpecAmount (one amount) and SpecViewers (the slots of the viewers).     *)
(***************************************************************************)
EXTENDS Integers, Sequences, FiniteSets, TLC

VARIABLES
    \* ---- the portal and the job directory (inputs of one harvest pass)
    world,          \* what the portal shows: links, detail tables, page size
    disk,           \* files of pdf_dir / job_id: path -> size in bytes
    \* ---- get_summary_table_data_and_process
    pc,             \* position in the pass
    page_num,       \* summary page counter (page_num)
    shown,          \* summary page the grid really shows
    links_data,     \* identities enumerated on the current summary page
    li,             \* index of the identity being processed (i)
    all_pdfs,       \* outcome list of the pass (all_pdfs)
    \* ---- process_detail_table
    link_text,      \* count text of the identity being processed
    cur_fecha,      \* date_key of the identity being processed
    dpage,          \* detail page shown (the grid keeps it across identities)
    row_idx,        \* row of the detail page being handled (0 = none yet)
    pdfs_data,      \* outcome list of the identity (pdfs_data)
    row_data,       \* the row being downloaded
    retry,          \* attempt counter of the running retry loop
    \* ---- validate_and_retry_downloads
    failed_records, \* indices in pdfs_data of the rows to retry
    fi,             \* index in failed_records
    target,         \* row re-located in the current rendering
    \* ---- final_validation
    report,         \* the last report returned
    \* ---- history of the pass (not program state)
    visited,        \* date_keys the for loop over links_data has reached
    processed,      \* date_keys handed to process_detail_table, in order
    triggers,       \* downloads triggered for the row at hand
    last,           \* what the last step did
    \* ---- the browser page
    dom,            \* view shown, its rendering, the element last clicked
    \* ---- final_validation over record counts (SpecFV)
    fv,
    \* ---- the pipeline drivers (SpecPipe)
    pipe,
    \* ---- jobs triggered through the API and the paths they write (SpecJobs)
    jobs,
    \* ---- the registry of remote browser sessions (SpecSessions)
    sessions,
    \* ---- one document on its way through the extraction (SpecExt)
    ext,
    \* ---- the slots of the viewer containers (SpecViewers)
    viewers

harvestVars == <<world, disk, pc, page_num, shown, links_data, li, all_pdfs,
                 link_text, cur_fecha, dpage, row_idx, pdfs_data, row_data,
                 retry, failed_records, fi, target, report, visited,
                 processed, triggers, last, dom>>
vars == <<harvestVars, fv, pipe, jobs, sessions, ext, viewers>>

-----------------------------------------------------------------------------
(* Bounds of the model *)
MaxLinks == 3          \* links of the summary grid
MaxRows == 2           \* rows of one detail table
MaxPageNum == 3        \* cap of the summary page counter
MaxRecords == 1019     \* records of an outcome list in SpecFV
MaxCount == 2          \* largest count a link shows
SummaryPageSize == 2   \* rows the summary grid shows per page

(* Program constants *)
MinPdfBytes == 1000        \* integrity threshold
FirstPassAttempts == 3     \* range(3)
ReconcileAttempts == 2     \* range(2)
PassRate == 95             \* success_rate >= 95

NoFecha == 0
NonDigit == -1
NoToken == <<0, 0>>
NoPath == <<>>
None == [none |-> TRUE]

Min(a, b) == IF a < b THEN a ELSE b

-----------------------------------------------------------------------------
(* The portal *)

\* One link of the "Cuentas A Pago" column: the date in its onclick (NoFecha
\* when the pattern does not match) and its text (NonDigit when not a number).
Link(f, c) == [fecha |-> f, count |-> c]

\* One row of a detail grid: account number and download token, the token a
\* pair <<first 8 characters, rest>>.
Row(c, t) == [cuenta |-> c, tok |-> t]

Tokens == {<<1, 1>>, <<1, 2>>, <<2, 1>>}
Cuentas == {1, 2}
RowKinds == {Row(c, t) : c \in Cuentas, t \in Tokens \cup {NoToken}}

\* token[:8]
TokenPrefix(t) == t[1]

SeqsUpTo(S, n) == UNION {[1..k -> S] : k \in 0..n}

\* what one download can deliver: an exception, or a file of some size
DownloadError == -1
DownloadOutcomes == {DownloadError, 500, 1000, 2000}
\* sizes of a file left in the job directory before the pass
PreSizes == {0, 500, 2000}

\* The grid is sorted by count, descending, before it is read: the numeric
\* links appear in non-increasing order.
SortedDesc(ls) ==
    \A i, j \in 1..Len(ls) :
        (i < j /\ ls[i].count >= 0 /\ ls[j].count >= 0 /\ ls[i].fecha # NoFecha
               /\ ls[j].fecha # NoFecha) => ls[i].count >= ls[j].count

\* Link i of the grid carries date i, or no date at all.
LinkSeqs ==
    {ls \in SeqsUpTo([fecha : 0..MaxLinks, count : NonDigit..MaxCount], MaxLinks) :
        /\ Len(ls) >= 1
        /\ \A i \in 1..Len(ls) : ls[i].fecha \in {NoFecha, i}
        /\ \A i \in 1..Len(ls) : ls[i].fecha = NoFecha => ls[i].count = 1
        /\ SortedDesc(ls)}

\* Detail tables without a repeated token (a token names one document); the
\* account numbers are named from the first row on.
Tables ==
    {t \in SeqsUpTo(RowKinds, MaxRows) :
        /\ Len(t) > 0 => t[1].cuenta = 1
        /\ \A i, j \in 1..Len(t) :
            (i # j /\ t[i].tok # NoToken) => t[i].tok # t[j].tok}

\* Worlds that vary the summary grid: every date has one document of its own,
\* which downloads well.
EnumWorlds ==
    {[links |-> ls,
      tables |-> [f \in 1..MaxLinks |-> <<Row(f, <<1, 1>>)>>],
      psize |-> 1,
      outcomes |-> {2000},
      tieUp |-> FALSE] : ls \in LinkSeqs}

\* Worlds that vary one detail table and its page size.
PageSizesFor(t) == IF Len(t) <= 1 THEN {1} ELSE 1..Len(t)
DetailWorlds ==
    UNION {{[links |-> <<Link(1, 1)>>,
             tables |-> [f \in 1..MaxLinks |-> t],
             psize |-> ps,
             outcomes |-> DownloadOutcomes,
             tieUp |-> FALSE] : ps \in PageSizesFor(t)} : t \in Tables}

\* A world of two dates whose detail tables both have two pages: the grid
\* can retain page 2 of the first date when the second is opened.
PagedWorlds ==
    {[links |-> <<Link(1, 2), Link(2, 1)>>,
      tables |-> [f \in 1..MaxLinks |-> <<Row(1, <<1, 1>>), Row(2, <<2, 1>>)>>],
      psize |-> 1,
      outcomes |-> {2000},
      tieUp |-> FALSE]}

\* rows of the summary grid on page n, and the number of its pages
NumSummaryPages(w) == (Len(w.links) + SummaryPageSize - 1) \div SummaryPageSize
SummaryPage(w, n) ==
    SubSeq(w.links, (n - 1) * SummaryPageSize + 1,
           Min(n * SummaryPageSize, Len(w.links)))

\* rows of the detail grid of date f on page n, and the number of its pages
NumDetailPages(w, f) == (Len(w.tables[f]) + w.psize - 1) \div w.psize
DetailPage(w, f, n) ==
    SubSeq(w.tables[f], (n - 1) * w.psize + 1,
           Min(n * w.psize, Len(w.tables[f])))


-----------------------------------------------------------------------------
(* File names *)

\* f"{nro_cuenta}_{link_text}_{token[:8]}.pdf"
FirstPassPath(r, lt) == <<r.cuenta, lt, TokenPrefix(r.pdf_token), 0>>

\* f"{nro_cuenta}_{link_text}_{token[:8]}_retry{retry+1}.pdf"
RetryPath(r, lt, n) == <<r.cuenta, lt, TokenPrefix(r.pdf_token), n>>

Exists(d, p) == p \in DOMAIN d
Unlink(d, p) == [q \in DOMAIN d \ {p} |-> d[q]]
SaveAs(d, p, s) == [q \in DOMAIN d \cup {p} |-> IF q = p THEN s ELSE d[q]]

\* the integrity checks, as each place of the code writes them
ExistingFileValid(size) == size > 0
FirstPassValid(size) == size > MinPdfBytes
ReconcileValid(size) == size > MinPdfBytes
IsCorrupted(size) == size < MinPdfBytes

-----------------------------------------------------------------------------
(* get_summary_table_data_and_process: reading one summary page *)

RECURSIVE EnumerateFrom(_, _, _)
EnumerateFrom(links, i, acc) ==
    IF i > Len(links) THEN [found_zero |-> FALSE, links_data |-> acc]
    ELSE IF links[i].fecha = NoFecha THEN EnumerateFrom(links, i + 1, acc)
    ELSE IF links[i].count = NonDigit THEN EnumerateFrom(links, i + 1, acc)
    ELSE IF links[i].count = 0 THEN [found_zero |-> TRUE, links_data |-> acc]
    ELSE EnumerateFrom(links, i + 1, Append(acc, links[i]))

Enumerate(links) == EnumerateFrom(links, 1, <<>>)

\* the loop is left, without processing links_data, on a zero or on no link
LeavesLoop(e) == e.found_zero \/ Len(e.links_data) = 0

Step(op, out, ok) == [op |-> op, out |-> out, ok |-> ok]

\* The page in the browser: the view it shows, the number of the rendering
\* (every navigation renders the page anew and detaches the elements of the
\* rendering before), the rendering the links were read in, and the link
\* clicked last with the renderings it was found and clicked in.
FirstRendering ==
    [view |-> "summary", gen |-> 0, read_gen |-> 0, clicked |-> None]

\* faulty variant of the lookup: the element read when the links of the
\* page were enumerated
EnumeratedLink(f) == [fecha |-> f, gen |-> dom.read_gen]

\* fresh_links[0]: the link located by its date in the rendering shown
\* (lines 412-423)
ResolveLink(f) == [fecha |-> f, gen |-> dom.gen]

\* target_link.click(): the element clicked, the rendering it was found in
\* and the rendering shown at the click (line 427)
Click(d, h) ==
    [d EXCEPT !.clicked = [fecha |-> h.fecha, gen |-> h.gen, at |-> d.gen]]

\* a click that navigates: the page is rendered anew
Navigated(d, v) == [d EXCEPT !.view = v, !.gen = @ + 1]

detailVars == <<link_text, cur_fecha, dpage, row_idx, pdfs_data, row_data,
                retry, failed_records, fi, target, triggers>>
otherVars == <<fv, pipe, jobs, sessions, ext, viewers>>

\* while True: read the links of the page shown (lines 359-405)
SumRead ==
    /\ pc = "sum_read"
    /\ LET e == Enumerate(SummaryPage(world, shown)) IN
        /\ links_data' = e.links_data
        /\ IF LeavesLoop(e)
           THEN pc' = "final" /\ li' = 0
           ELSE pc' = "sum_iter" /\ li' = 1
        /\ last' = Step("sum_read", Len(e.links_data), ~e.found_zero)
    /\ dom' = [dom EXCEPT !.read_gen = dom.gen]
    /\ UNCHANGED <<world, disk, page_num, shown, all_pdfs, report, visited, processed>>
    /\ UNCHANGED detailVars
    /\ UNCHANGED otherVars

\* the for loop goes to its next link, or to the pager after the last one
NextLink ==
    IF li < Len(links_data)
    THEN li' = li + 1 /\ pc' = "sum_iter"
    ELSE li' = li /\ pc' = "sum_page"

\* the link is not found again, the click raises, or the detail marker does
\* not show: continue with the next link (lines 416-437)
SumSkip(why) ==
    /\ pc = "sum_iter"
    /\ NextLink
    /\ last' = Step(why, links_data[li].fecha, FALSE)
    /\ visited' = visited \cup {links_data[li].fecha}
    /\ dom' = IF why = "no_link" THEN dom
              ELSE Click(dom, ResolveLink(links_data[li].fecha))
    /\ UNCHANGED <<world, disk, page_num, shown, links_data, all_pdfs, report,
                   processed>>
    /\ UNCHANGED detailVars
    /\ UNCHANGED otherVars

\* the link is clicked and the detail marker shows: process_detail_table is
\* called with the link's text (lines 423-441)
SumOpenDetail ==
    /\ pc = "sum_iter"
    /\ pc' = "det_start"
    /\ cur_fecha' = links_data[li].fecha
    /\ link_text' = links_data[li].count
    /\ processed' = Append(processed, links_data[li].fecha)
    /\ visited' = visited \cup {links_data[li].fecha}
    /\ pdfs_data' = <<>>
    /\ row_idx' = 0
    /\ last' = Step("open", links_data[li].fecha, TRUE)
    /\ dom' = Navigated(Click(dom, ResolveLink(links_data[li].fecha)),
                        "detail")
    /\ UNCHANGED <<world, disk, page_num, shown, links_data, li, all_pdfs,
                   report, dpage, row_data, retry, failed_records, fi, target,
                   triggers>>
    /\ UNCHANGED otherVars

-----------------------------------------------------------------------------
(* process_detail_table *)

\* wait_for of the marker times out: the exception leaves
\* process_detail_table and is caught by the caller (lines 486, 456-460)
DetWaitTimeout ==
    /\ pc = "det_start"
    /\ NextLink
    /\ last' = Step("detail_error", cur_fecha, FALSE)
    /\ UNCHANGED <<world, disk, page_num, shown, links_data, all_pdfs, report,
                   visited, processed>>
    /\ UNCHANGED detailVars
    /\ UNCHANGED <<dom, otherVars>>

\* page the grid shows for this date before the reset
RetainedPage == Min(dpage, IF NumDetailPages(world, cur_fecha) = 0 THEN 1
                           ELSE NumDetailPages(world, cur_fecha))

\* the pagination is reset to page 1, or the reset raises and is swallowed;
\* the headers are read (lines 488-529)
DetReset(ok) ==
    /\ pc = "det_start"
    /\ dpage' = IF ok THEN 1 ELSE RetainedPage
    /\ row_idx' = 1
    /\ pc' = "det_row"
    /\ last' = Step("reset", cur_fecha, ok)
    /\ UNCHANGED <<world, disk, page_num, shown, links_data, li, all_pdfs,
                   report, visited, processed, link_text, cur_fecha, pdfs_data,
                   row_data, retry, failed_records, fi, target, triggers>>
    /\ UNCHANGED <<dom, otherVars>>

PageRows == DetailPage(world, cur_fecha, dpage)

\* row_data of a row whose token was extracted (lines 549-577); fecha and pos
\* name the row for the properties
NewRowData(row, pos) ==
    [cuenta |-> row.cuenta, pdf_token |-> row.tok, pdf_filename |-> NoPath,
     pdf_size |-> 0, download_status |-> "", retry_success |-> FALSE,
     retry_count |-> 0, final_error |-> "", fecha |-> cur_fecha, pos |-> pos]

RowPos == (dpage - 1) * world.psize + row_idx

\* a row without a document link, or whose token cannot be extracted: the
\* loop continues with the next row (lines 564-583)
DetRowSkip(why) ==
    /\ pc = "det_row"
    /\ row_idx >= 1 /\ row_idx <= Len(PageRows)
    /\ \/ why = "no_pdf" /\ PageRows[row_idx].tok = NoToken
       \/ why = "no_token" /\ PageRows[row_idx].tok # NoToken
    /\ row_idx' = row_idx + 1
    /\ last' = Step(why, RowPos, FALSE)
    /\ UNCHANGED <<world, disk, pc, page_num, shown, links_data, li, all_pdfs,
                   report, visited, processed, link_text, cur_fecha, dpage, pdfs_data,
                   row_data, retry, failed_records, fi, target, triggers>>
    /\ UNCHANGED <<dom, otherVars>>

\* reading the cells of the row or probing it for the document link raises
\* (lines 546-564, outside every try of the function): the exception leaves
\* process_detail_table with the records of the identity and is caught by the
\* caller, which goes to its next link (lines 456-460)
DetRowError ==
    /\ pc = "det_row"
    /\ row_idx >= 1 /\ row_idx <= Len(PageRows)
    /\ NextLink
    /\ pdfs_data' = <<>>
    /\ row_idx' = 0
    /\ row_data' = None
    /\ last' = Step("row_error", RowPos, FALSE)
    /\ UNCHANGED <<world, disk, page_num, shown, links_data, all_pdfs, report,
                   visited, processed, link_text, cur_fecha, dpage, retry,
                   failed_records, fi, target, triggers>>
    /\ UNCHANGED <<dom, otherVars>>

\* the token is extracted and the retry loop starts (lines 568-587)
DetRowToken ==
    /\ pc = "det_row"
    /\ row_idx >= 1 /\ row_idx <= Len(PageRows)
    /\ PageRows[row_idx].tok # NoToken
    /\ row_data' = NewRowData(PageRows[row_idx], RowPos)
    /\ retry' = 0
    /\ triggers' = 0
    /\ pc' = "attempt"
    /\ last' = Step("token", RowPos, TRUE)
    /\ UNCHANGED <<world, disk, page_num, shown, links_data, li, all_pdfs,
                   report, visited, processed, link_text, cur_fecha, dpage, row_idx,
                   pdfs_data, failed_records, fi, target>>
    /\ UNCHANGED <<dom, otherVars>>

\* the row is left: the for loop of the page goes to its next row
RowDone(rec) ==
    /\ row_data' = rec
    /\ pdfs_data' = Append(pdfs_data, rec)
    /\ row_idx' = row_idx + 1
    /\ retry' = retry
    /\ pc' = "det_row"

\* faulty variant of the retry loop: one pass too many
AttemptFailedOnePassMore ==
    IF retry + 1 < FirstPassAttempts + 1
    THEN /\ retry' = retry + 1
         /\ UNCHANGED <<row_data, pdfs_data, row_idx, pc>>
    ELSE RowDone([row_data EXCEPT !.download_status = "FAILED"])

\* one more pass of the retry loop, or the row is recorded FAILED after the
\* last one (lines 636-649)
AttemptFailed ==
    IF retry + 1 < FirstPassAttempts
    THEN /\ retry' = retry + 1
         /\ UNCHANGED <<row_data, pdfs_data, row_idx, pc>>
    ELSE RowDone([row_data EXCEPT !.download_status = "FAILED"])

\* the file of the row is already there and passes the check made on
\* existing files: the row is a success without a download (lines 597-607)
AttemptExisting ==
    /\ pc = "attempt"
    /\ LET p == FirstPassPath(row_data, link_text) IN
        /\ Exists(disk, p)
        /\ ExistingFileValid(disk[p])
        /\ RowDone([row_data EXCEPT !.pdf_filename = p, !.pdf_size = disk[p]])
        /\ last' = Step("existing", disk[p], TRUE)
    /\ UNCHANGED <<world, disk, page_num, shown, links_data, li, all_pdfs,
                   report, visited, processed, link_text, cur_fecha, dpage,
                   failed_records, fi, target, triggers>>
    /\ UNCHANGED <<dom, otherVars>>

\* one download: an empty file in the way is removed, the download is
\* triggered and saved, then checked; an invalid file is deleted
\* (lines 608-642)
AttemptDownload(out) ==
    /\ pc = "attempt"
    /\ LET p == FirstPassPath(row_data, link_text)
           d1 == IF Exists(disk, p) THEN Unlink(disk, p) ELSE disk
       IN
        /\ ~(Exists(disk, p) /\ ExistingFileValid(disk[p]))
        /\ triggers' = triggers + 1
        /\ IF out = DownloadError
           THEN /\ disk' = d1
                /\ AttemptFailed
                /\ last' = Step("download", out, FALSE)
           ELSE IF FirstPassValid(out)
           THEN /\ disk' = SaveAs(d1, p, out)
                /\ RowDone([row_data EXCEPT !.pdf_filename = p,
                                            !.pdf_size = out])
                /\ last' = Step("download", out, TRUE)
           ELSE /\ disk' = Unlink(SaveAs(d1, p, out), p)
                /\ AttemptFailed
                /\ last' = Step("download", out, FALSE)
    /\ UNCHANGED <<world, page_num, shown, links_data, li, all_pdfs, report,
                   visited, processed, link_text, cur_fecha, dpage, failed_records, fi,
                   target>>
    /\ UNCHANGED <<dom, otherVars>>

\* after the rows of a page: the next page, or the end of the table on an
\* empty page, a missing or disabled next control, or an error (lines 537-539,
\* 651-674)
DetPager(err) ==
    /\ pc = "det_row"
    /\ row_idx > Len(PageRows)
    /\ err => Len(PageRows) > 0
    /\ IF /\ ~err
          /\ Len(PageRows) > 0
          /\ dpage < NumDetailPages(world, cur_fecha)
       THEN dpage' = dpage + 1 /\ row_idx' = 1 /\ pc' = "det_row"
       ELSE dpage' = dpage /\ row_idx' = 0 /\ pc' = "validate"
    /\ row_data' = None
    /\ retry' = 0
    /\ triggers' = 0
    /\ last' = Step("pager", dpage, ~err)
    /\ UNCHANGED <<world, disk, page_num, shown, links_data, li, all_pdfs,
                   report, visited, processed, link_text, cur_fecha, pdfs_data,
                   failed_records, fi, target>>
    /\ UNCHANGED <<dom, otherVars>>

-----------------------------------------------------------------------------
(* validate_and_retry_downloads *)

Count(s, P(_)) == Cardinality({i \in 1..Len(s) : P(s[i])})

HasToken(r) == r.pdf_token # NoToken
HasFile(r) == r.pdf_filename # NoPath

\* expected_pdfs and actual_pdfs (lines 735-736)
ExpectedPdfs(pd) == Count(pd, HasToken)
ActualPdfs(pd) == Count(pd, HasFile)

RECURSIVE IndicesFrom(_, _, _)
IndicesFrom(pd, i, acc) ==
    IF i > Len(pd) THEN acc
    ELSE IF ~HasFile(pd[i]) /\ HasToken(pd[i])
         THEN IndicesFrom(pd, i + 1, Append(acc, i))
         ELSE IndicesFrom(pd, i + 1, acc)

RECURSIVE TokenIndicesFrom(_, _, _)
TokenIndicesFrom(pd, i, acc) ==
    IF i > Len(pd) THEN acc
    ELSE IF HasToken(pd[i])
         THEN TokenIndicesFrom(pd, i + 1, Append(acc, i))
         ELSE TokenIndicesFrom(pd, i + 1, acc)

\* faulty variant of the entry: no comparison of the counts, every row with
\* a token is retried
RetryEveryToken(pd) == TokenIndicesFrom(pd, 1, <<>>)

\* the records to retry: none when the counts match (lines 740-751)
RetryTargets(pd) ==
    IF ExpectedPdfs(pd) = ActualPdfs(pd) THEN <<>> ELSE IndicesFrom(pd, 1, <<>>)

\* entry of validate_and_retry_downloads (lines 730-753)
Validate ==
    /\ pc = "validate"
    /\ failed_records' = RetryTargets(pdfs_data)
    /\ IF RetryTargets(pdfs_data) = <<>>
       THEN fi' = 0 /\ pc' = "det_return"
       ELSE fi' = 1 /\ pc' = "vr_locate"
    /\ last' = Step("validate", Len(RetryTargets(pdfs_data)),
                    ExpectedPdfs(pdfs_data) = ActualPdfs(pdfs_data))
    /\ UNCHANGED <<world, disk, page_num, shown, links_data, li, all_pdfs,
                   report, visited, processed, link_text, cur_fecha, dpage, row_idx,
                   pdfs_data, row_data, retry, target, triggers>>
    /\ UNCHANGED <<dom, otherVars>>

Record == pdfs_data[failed_records[fi]]

\* the for loop over failed_records goes on, or the function returns
NextFailed ==
    IF fi < Len(failed_records)
    THEN fi' = fi + 1 /\ pc' = "vr_locate"
    ELSE fi' = fi /\ pc' = "det_return"

RECURSIVE FirstWithCuenta(_, _, _)
FirstWithCuenta(rows, c, i) ==
    IF i > Len(rows) THEN 0
    ELSE IF rows[i].cuenta = c THEN i
    ELSE FirstWithCuenta(rows, c, i + 1)

\* the row of the current rendering whose first cell is the account number
\* (lines 763-772): 0 when there is none
TargetRow(c) == FirstWithCuenta(PageRows, c, 1)

\* the row is not in the rendering, or has no document link: continue with
\* the next record, this one untouched (lines 774-782)
VrNotFound ==
    /\ pc = "vr_locate"
    /\ \/ TargetRow(Record.cuenta) = 0
       \/ /\ TargetRow(Record.cuenta) # 0
          /\ PageRows[TargetRow(Record.cuenta)].tok = NoToken
    /\ NextFailed
    /\ last' = Step("not_found", failed_records[fi], FALSE)
    /\ UNCHANGED <<world, disk, page_num, shown, links_data, li, all_pdfs,
                   report, visited, processed, link_text, cur_fecha, dpage, row_idx,
                   pdfs_data, row_data, retry, failed_records, target,
                   triggers>>
    /\ UNCHANGED <<dom, otherVars>>

\* locating the row raises: the record is FAILED_FINAL (lines 827-830)
VrLocateError ==
    /\ pc = "vr_locate"
    /\ pdfs_data' = [pdfs_data EXCEPT ![failed_records[fi]] =
                        [@ EXCEPT !.download_status = "FAILED_FINAL",
                                  !.final_error = "exception"]]
    /\ NextFailed
    /\ last' = Step("locate_error", failed_records[fi], FALSE)
    /\ UNCHANGED <<world, disk, page_num, shown, links_data, li, all_pdfs,
                   report, visited, processed, link_text, cur_fecha, dpage, row_idx,
                   row_data, retry, failed_records, target, triggers>>
    /\ UNCHANGED <<dom, otherVars>>

\* the row and its link are found: the retry loop starts (lines 779-786)
VrFound ==
    /\ pc = "vr_locate"
    /\ TargetRow(Record.cuenta) # 0
    /\ PageRows[TargetRow(Record.cuenta)].tok # NoToken
    /\ target' = PageRows[TargetRow(Record.cuenta)]
    /\ retry' = 0
    /\ triggers' = 0
    /\ pc' = "vr_attempt"
    /\ last' = Step("found", failed_records[fi], TRUE)
    /\ UNCHANGED <<world, disk, page_num, shown, links_data, li, all_pdfs,
                   report, visited, processed, link_text, cur_fecha, dpage, row_idx,
                   pdfs_data, row_data, failed_records, fi>>
    /\ UNCHANGED <<dom, otherVars>>

\* one more retry, or the record is FAILED_FINAL after the last one
\* (lines 812-825)
RetryFailed ==
    IF retry + 1 < ReconcileAttempts
    THEN /\ retry' = retry + 1
         /\ UNCHANGED <<pdfs_data, fi, pc>>
    ELSE /\ pdfs_data' = [pdfs_data EXCEPT ![failed_records[fi]] =
                            [@ EXCEPT !.download_status = "FAILED_FINAL",
                                      !.final_error = "All retries failed"]]
         /\ retry' = retry
         /\ NextFailed

\* one retry: the link of the re-located row is clicked, the download saved
\* under the retry name and checked; an invalid file is deleted
\* (lines 787-820)
VrAttempt(out) ==
    /\ pc = "vr_attempt"
    /\ LET p == RetryPath(Record, link_text, retry + 1) IN
        /\ triggers' = triggers + 1
        /\ IF out = DownloadError
           THEN /\ disk' = disk
                /\ RetryFailed
                /\ last' = Step("retry", out, FALSE)
           ELSE IF ReconcileValid(out)
           THEN /\ disk' = SaveAs(disk, p, out)
                /\ pdfs_data' = [pdfs_data EXCEPT ![failed_records[fi]] =
                                    [@ EXCEPT !.pdf_filename = p,
                                              !.pdf_size = out,
                                              !.retry_success = TRUE,
                                              !.retry_count = retry + 1]]
                /\ retry' = retry
                /\ NextFailed
                /\ last' = Step("retry", out, TRUE)
           ELSE /\ disk' = Unlink(SaveAs(disk, p, out), p)
                /\ RetryFailed
                /\ last' = Step("retry", out, FALSE)
    /\ UNCHANGED <<world, page_num, shown, links_data, li, all_pdfs, report,
                   visited, processed, link_text, cur_fecha, dpage, row_idx, row_data,
                   failed_records, target>>
    /\ UNCHANGED <<dom, otherVars>>

\* process_detail_table prints its summary, clicks the search button to go
\* back to the summary view and returns pdfs_data, which the caller appends
\* to all_pdfs (lines 696-728, 441-454)
DetReturn ==
    /\ pc = "det_return"
    /\ all_pdfs' = all_pdfs \o pdfs_data
    /\ NextLink
    /\ pdfs_data' = <<>>
    /\ failed_records' = <<>>
    /\ fi' = 0
    /\ target' = None
    /\ retry' = 0
    /\ triggers' = 0
    /\ row_data' = None
    /\ dom' = Navigated(dom, "summary")
    /\ last' = Step("return", cur_fecha, TRUE)
    /\ UNCHANGED <<world, disk, page_num, shown, links_data, report, visited, processed,
                   link_text, cur_fecha, dpage, row_idx>>
    /\ UNCHANGED otherVars

\* the pager of the summary grid (lines 462-473): the next control is clicked
\* whenever it is in the page, disabled or not; the grid shows it on every
\* page when it has more than one page
SumPager(err) ==
    /\ pc = "sum_page"
    /\ err => NumSummaryPages(world) > 1
    /\ IF ~err /\ NumSummaryPages(world) > 1
       THEN /\ page_num < MaxPageNum
            /\ page_num' = page_num + 1
            /\ shown' = Min(shown + 1, NumSummaryPages(world))
            /\ pc' = "sum_read"
            /\ dom' = Navigated(dom, dom.view)
       ELSE /\ pc' = "final"
            /\ UNCHANGED <<page_num, shown, dom>>
    /\ last' = Step("sum_pager", page_num, ~err)
    /\ UNCHANGED <<world, disk, links_data, li, all_pdfs, report, visited, processed>>
    /\ UNCHANGED detailVars
    /\ UNCHANGED otherVars

-----------------------------------------------------------------------------
(* final_validation *)

IsFailed(r) == r.download_status = "FAILED"
IsRetrySuccess(r) == r.retry_success

\* files of the job directory below the threshold (lines 856-865)
CorruptedFiles(d) == {p \in DOMAIN d : IsCorrupted(d[p])}

RECURSIVE SumSizes(_, _)
SumSizes(d, ps) ==
    IF ps = {} THEN 0
    ELSE LET p == CHOOSE q \in ps : TRUE IN d[p] + SumSizes(d, ps \ {p})

\* total_size (lines 861-863)
TotalSize(d) == SumSizes(d, DOMAIN d)

RECURSIVE FailedFrom(_, _, _)
FailedFrom(ap, i, acc) ==
    IF i > Len(ap) THEN acc
    ELSE IF IsFailed(ap[i])
         THEN FailedFrom(ap, i + 1,
                  Append(acc, [nro_cuenta |-> ap[i].cuenta,
                               error |-> IF ap[i].final_error = ""
                                         THEN "Unknown error"
                                         ELSE ap[i].final_error]))
         ELSE FailedFrom(ap, i + 1, acc)

\* failed_records of the report (lines 877-887)
FailedRecords(ap) == FailedFrom(ap, 1, <<>>)

\* round(success_rate, 2), in hundredths of a percent; a value exactly
\* halfway between two hundredths goes the way the binary fraction falls
Round2(s, t, tieUp) ==
    LET n == s * 10000
        f == n \div t
        rem == n % t
    IN  IF 2 * rem > t THEN f + 1
        ELSE IF 2 * rem < t THEN f
        ELSE IF tieUp THEN f + 1 ELSE f

\* success_rate >= 95, on the rate before it is rounded (lines 890-893)
RateReached(s, t) == t > 0 /\ s * 100 >= PassRate * t

\* the report built from the counts (lines 889-914)
ReportFrom(total, successful, failed, corrupted, retried, size, tieUp) ==
    [passed |-> RateReached(successful, total) /\ corrupted = {},
     total_expected |-> total,
     total_downloaded |-> successful,
     success_rate |-> IF total > 0 THEN Round2(successful, total, tieUp) ELSE 0,
     failed_records |-> failed,
     corrupted_files |-> corrupted,
     retry_successes |-> retried,
     total_size_bytes |-> size]

\* final_validation(all_pdfs) on the job directory d (lines 836-914)
FinalValidation(ap, d, tieUp) ==
    ReportFrom(Len(ap), Count(ap, HasFile), FailedRecords(ap),
               CorruptedFiles(d), Count(ap, IsRetrySuccess), TotalSize(d),
               tieUp)

\* faulty variant of the scan: the files below the threshold are removed
DiskWithoutCorrupted(d) == [q \in DOMAIN d \ CorruptedFiles(d) |-> d[q]]

\* final_validation reads the directory and the list and writes neither
DiskAfterValidation(d) == d
OutcomesAfterValidation(ap) == ap

\* Validación final (line 476)
Final ==
    /\ pc = "final"
    /\ report' = FinalValidation(all_pdfs, disk, world.tieUp)
    /\ disk' = DiskAfterValidation(disk)
    /\ all_pdfs' = OutcomesAfterValidation(all_pdfs)
    /\ pc' = "done"
    /\ last' = Step("final", Len(all_pdfs), TRUE)
    /\ UNCHANGED <<world, page_num, shown, links_data, li, visited, processed>>
    /\ UNCHANGED detailVars
    /\ UNCHANGED <<dom, otherVars>>

\* final_validation applied again to the same list and directory
FinalAgain ==
    /\ pc = "done"
    /\ report' = FinalValidation(all_pdfs, disk, world.tieUp)
    /\ disk' = DiskAfterValidation(disk)
    /\ all_pdfs' = OutcomesAfterValidation(all_pdfs)
    /\ last' = Step("final_again", Len(all_pdfs), TRUE)
    /\ UNCHANGED <<world, pc, page_num, shown, links_data, li, visited, processed>>
    /\ UNCHANGED detailVars
    /\ UNCHANGED <<dom, otherVars>>

-----------------------------------------------------------------------------
(* One harvest pass *)

\* the job directory before the pass: empty, or one file in the way of the
\* first document of the first table
FirstPaths(w) ==
    IF Len(w.tables[1]) > 0 /\ w.tables[1][1].tok # NoToken /\ w.links[1].count > 0
    THEN {<<w.tables[1][1].cuenta, w.links[1].count,
            TokenPrefix(w.tables[1][1].tok), 0>>}
    ELSE {}

EmptyDisk == [q \in {} |-> 0]

InitDisks(w) ==
    {EmptyDisk} \cup {[q \in {p} |-> s] : p \in FirstPaths(w), s \in PreSizes}

IdleFV == fv = None
IdlePipe == pipe = None
IdleJobs == jobs = None
IdleSessions == sessions = None
IdleExt == ext = None
IdleViewers == viewers = None
IdleApi == IdleJobs /\ IdleSessions /\ IdleExt /\ IdleViewers

Init ==
    /\ world \in EnumWorlds \cup DetailWorlds \cup PagedWorlds
    /\ disk \in InitDisks(world)
    /\ pc = "sum_read"
    /\ page_num = 1
    /\ shown = 1
    /\ links_data = <<>>
    /\ li = 0
    /\ all_pdfs = <<>>
    /\ link_text = 0
    /\ cur_fecha = 0
    /\ dpage = 1
    /\ row_idx = 0
    /\ pdfs_data = <<>>
    /\ row_data = None
    /\ retry = 0
    /\ failed_records = <<>>
    /\ fi = 0
    /\ target = None
    /\ report = None
    /\ visited = {}
    /\ processed = <<>>
    /\ triggers = 0
    /\ last = Step("init", 0, TRUE)
    /\ dom = FirstRendering
    /\ IdleFV
    /\ IdlePipe
    /\ IdleApi

Next ==
    \/ SumRead
    \/ \E why \in {"no_link", "click_error", "no_marker"} : SumSkip(why)
    \/ SumOpenDetail
    \/ DetWaitTimeout
    \/ \E ok \in BOOLEAN : DetReset(ok)
    \/ \E why \in {"no_pdf", "no_token"} : DetRowSkip(why)
    \/ DetRowError
    \/ DetRowToken
    \/ AttemptExisting
    \/ \E out \in world.outcomes : AttemptDownload(out)
    \/ \E err \in BOOLEAN : DetPager(err)
    \/ Validate
    \/ VrNotFound
    \/ VrLocateError
    \/ VrFound
    \/ \E out \in world.outcomes : VrAttempt(out)
    \/ DetReturn
    \/ \E err \in BOOLEAN : SumPager(err)
    \/ Final
    \/ FinalAgain

Spec == Init /\ [][Next]_vars

-----------------------------------------------------------------------------
(* final_validation over the counts of an outcome list *)

\* the harvest variables while another specification runs
IdleHarvest ==
    /\ world = None /\ disk = EmptyDisk /\ pc = "idle"
    /\ page_num = 0 /\ shown = 0 /\ links_data = <<>> /\ li = 0
    /\ all_pdfs = <<>> /\ link_text = 0 /\ cur_fecha = 0 /\ dpage = 0
    /\ row_idx = 0 /\ pdfs_data = <<>> /\ row_data = None /\ retry = 0
    /\ failed_records = <<>> /\ fi = 0 /\ target = None /\ report = None
    /\ visited = {} /\ processed = <<>> /\ triggers = 0
    /\ last = Step("idle", 0, TRUE)
    /\ dom = None

MaxFailed == 51        \* records without a file in SpecFV

IsTie(s, t) == t > 0 /\ 2 * ((s * 10000) % t) = t

\* an outcome list of t records, s of them with a file, and a directory with
\* or without one file below the threshold
FvInput(t, s, c, up) ==
    [total |-> t, successful |-> s, corrupted |-> c, tieUp |-> up,
     report |-> None]

FvInit ==
    /\ \E t \in 0..MaxRecords :
         \E s \in (IF t > MaxFailed THEN t - MaxFailed ELSE 0)..t :
           \E c \in {{}, {<<1, 1, 1, 0>>}} :
             \E up \in (IF IsTie(s, t) THEN BOOLEAN ELSE {FALSE}) :
                fv = FvInput(t, s, c, up)
    /\ IdleHarvest
    /\ IdlePipe
    /\ IdleApi

\* final_validation on such a list (lines 889-914)
FvFinalize ==
    /\ fv.report = None
    /\ fv' = [fv EXCEPT !.report =
                ReportFrom(fv.total, fv.successful, <<>>, fv.corrupted, 0, 0,
                           fv.tieUp)]
    /\ UNCHANGED <<harvestVars, pipe, jobs, sessions, ext, viewers>>

FvNext == FvFinalize

SpecFV == FvInit /\ [][FvNext]_vars

\* C9: in every report, passed is true exactly when success_rate is at
\* least 95 and corrupted_files is empty.
C9_PassedIffRateAndNoCorrupt ==
    fv.report # None =>
        (fv.report.passed <=>
            (fv.report.success_rate >= PassRate * 100
             /\ fv.report.corrupted_files = {}))

-----------------------------------------------------------------------------
(* The pipeline drivers: run_full_process, run_pipeline and
   run_pipeline_with_state *)

MaxPipeDocs == 2       \* records of the harvest a driver runs

Drivers == {"run_full_process", "run_pipeline", "run_pipeline_with_state"}

StepsPending ==
    [scraping |-> "pending", extraction |-> "pending", reporting |-> "pending"]

\* the reports a harvest of at most MaxPipeDocs records can hand to a driver
ScrapeReports ==
    UNION {{ReportFrom(t, s, <<>>, c, 0, 0, FALSE) :
                s \in 0..t, c \in {{}, {<<1, 1, 1, 0>>}}} : t \in 0..MaxPipeDocs}

\* faulty variant of the gate: every result is let through
GateAlwaysOpen(res) == TRUE

\* ScrapingResult.validation_passed
ValidationPassed(res) == res.passed

\* a handler that fails every step that is not completed
MarkUnfinishedFailed(st) ==
    [k \in DOMAIN st |-> IF st[k] = "completed" THEN "completed" ELSE "failed"]

\* the except handlers of the two workers: the job is failed, the first step
\* found running is failed, the exception goes on to the caller
MarkFailed(st) ==
    IF st.scraping = "running" THEN [st EXCEPT !.scraping = "failed"]
    ELSE IF st.extraction = "running" THEN [st EXCEPT !.extraction = "failed"]
    ELSE IF st.reporting = "running" THEN [st EXCEPT !.reporting = "failed"]
    ELSE st

Raised(p, rep) ==
    IF p.kind = "run_full_process"
    THEN [p EXCEPT !.pc = "done", !.outcome = [how |-> "raise", report |-> rep]]
    ELSE [p EXCEPT !.pc = "done", !.status = "failed",
                   !.steps = MarkFailed(p.steps),
                   !.outcome = [how |-> "raise", report |-> rep]]

PipeInit ==
    /\ \E k \in Drivers : \E ss, se \in BOOLEAN :
        /\ k # "run_full_process" => (~ss /\ ~se)
        /\ pipe = [kind |-> k, skip_scraping |-> ss, skip_extraction |-> se,
                   pc |-> "start", scraping_result |-> None,
                   discover |-> "",
                   steps |-> StepsPending, status |-> "pending",
                   outcome |-> None, extraction_started |-> FALSE]
    /\ IdleHarvest
    /\ IdleFV
    /\ IdleApi

PipeStep(p) ==
    /\ pipe' = p
    /\ UNCHANGED <<harvestVars, fv, jobs, sessions, ext, viewers>>

\* "if not skip_scraping" / steps.scraping = "running"
PipeStart ==
    /\ pipe.pc = "start"
    /\ PipeStep(IF pipe.kind = "run_full_process"
                THEN [pipe EXCEPT !.pc = IF pipe.skip_scraping
                                         THEN "extraction" ELSE "scraping"]
                ELSE [pipe EXCEPT !.pc = "scraping",
                                  !.steps.scraping = "running"])

\* run_scraping / run_with_storage_state returns a result
PipeScraped(rep) ==
    /\ pipe.pc = "scraping"
    /\ PipeStep([pipe EXCEPT !.pc = "gate", !.scraping_result = rep])

\* Runs of discover_documents that end without a harvest: apply_filters sees
\* a no-data message, the summary grid yields no record, or an exception
\* reaches the handler of discover_documents.
Discoveries == {"no_data_signal", "no_identities", "fatal_error"}

\* the "validation" object of the results file of an empty harvest
\* (lines 980-987)
NoDataValidation ==
    [passed |-> FALSE, total_expected |-> 0, total_downloaded |-> 0,
     success_rate |-> 0, failed_records |-> <<>>, corrupted_files |-> {}]

NoFile == [file |-> FALSE]

\* the results file discover_documents leaves (lines 961-963, 969-990,
\* 1034-1047): none after the no-data message, one without a "validation"
\* key after an exception
ResultsFile(how) ==
    IF how = "no_data_signal" THEN NoFile
    ELSE IF how = "no_identities"
    THEN [file |-> TRUE, status |-> "no_data", validation |-> NoDataValidation]
    ELSE [file |-> TRUE, status |-> "error", validation |-> None]

\* open(results_file) and ValidationReport(**validation_data) of
\* _run_scraping_async and run_with_storage_state: both raise, the first on
\* a missing file, the second on a missing "validation" key, whose default {}
\* lacks the required fields of ValidationReport
LoadRaises(f) == ~f.file \/ f.validation = None

\* run_scraping / run_with_storage_state after such a run
PipeDiscover(how) ==
    /\ pipe.pc = "scraping"
    /\ LET f == ResultsFile(how)
           p == [pipe EXCEPT !.discover = how]
       IN  PipeStep(IF LoadRaises(f)
                    THEN Raised(p, None)
                    ELSE [p EXCEPT !.pc = "gate",
                                   !.scraping_result = f.validation])

\* run_scraping / run_with_storage_state raises
PipeScrapingRaises ==
    /\ pipe.pc = "scraping"
    /\ PipeStep(Raised(pipe, None))

\* "if not scraping_result.validation_passed"
PipeGate ==
    /\ pipe.pc = "gate"
    /\ PipeStep(
        IF ValidationPassed(pipe.scraping_result)
        THEN [pipe EXCEPT !.pc = IF pipe.kind = "run_full_process"
                                 THEN "extraction" ELSE "upload_pdfs"]
        ELSE IF pipe.kind = "run_full_process"
        THEN [pipe EXCEPT !.pc = "done", !.status = "validation_failed",
                          !.outcome = [how |-> "return",
                                       report |-> pipe.scraping_result]]
        ELSE Raised(pipe, pipe.scraping_result))

\* the upload of the PDFs, then steps.extraction = "running"
PipeUploadPdfs(ok) ==
    /\ pipe.pc = "upload_pdfs"
    /\ PipeStep(IF ok
                THEN [pipe EXCEPT !.pc = "extraction",
                                  !.steps.scraping = "completed",
                                  !.steps.extraction = "running"]
                ELSE Raised(pipe, None))

\* "if not skip_extraction: if scraping_result: run_extraction(...)" in
\* run_full_process, run_extraction(scraping_result) in the workers
PipeExtraction(ok) ==
    /\ pipe.pc = "extraction"
    /\ LET runs == IF pipe.kind = "run_full_process"
                   THEN ~pipe.skip_extraction /\ pipe.scraping_result # None
                   ELSE TRUE
           p == [pipe EXCEPT !.extraction_started = runs]
       IN  PipeStep(
            IF ~runs
            THEN [p EXCEPT !.pc = "done", !.status = "completed",
                           !.outcome = [how |-> "return",
                                        report |-> pipe.scraping_result]]
            ELSE IF ~ok THEN Raised(p, None)
            ELSE IF pipe.kind = "run_full_process"
            THEN [p EXCEPT !.pc = "done", !.status = "completed",
                           !.outcome = [how |-> "return",
                                        report |-> pipe.scraping_result]]
            ELSE [p EXCEPT !.pc = "upload_json"])

\* the upload of the JSONs, then steps.reporting = "running"
PipeUploadJson(ok) ==
    /\ pipe.pc = "upload_json"
    /\ PipeStep(IF ok
                THEN [pipe EXCEPT !.pc = "reporting",
                                  !.steps.extraction = "completed",
                                  !.steps.reporting = "running"]
                ELSE Raised(pipe, None))

\* the consolidated CSV and its upload
PipeReporting(ok) ==
    /\ pipe.pc = "reporting"
    /\ PipeStep(IF ok
                THEN [pipe EXCEPT !.pc = "done", !.status = "completed",
                                  !.steps.reporting = "completed",
                                  !.outcome = [how |-> "return",
                                               report |-> pipe.scraping_result]]
                ELSE Raised(pipe, None))

PipeNext ==
    \/ PipeStart
    \/ \E rep \in ScrapeReports : PipeScraped(rep)
    \/ \E how \in Discoveries : PipeDiscover(how)
    \/ PipeScrapingRaises
    \/ PipeGate
    \/ \E ok \in BOOLEAN : PipeUploadPdfs(ok)
    \/ \E ok \in BOOLEAN : PipeExtraction(ok)
    \/ \E ok \in BOOLEAN : PipeUploadJson(ok)
    \/ \E ok \in BOOLEAN : PipeReporting(ok)

SpecPipe == PipeInit /\ [][PipeNext]_vars

\* C3: extraction is never started after a scraping result whose validation
\* did not pass, in any of the three drivers, and such a run has stopped with
\* the scraping report once the gate has been passed.
C3_FailedHarvestNeverExtracted ==
    (pipe.scraping_result # None /\ ~pipe.scraping_result.passed) =>
        /\ ~pipe.extraction_started
        /\ pipe.pc \in {"gate", "done"}
        /\ pipe.steps.extraction = "pending"
        /\ pipe.pc = "done" =>
            /\ pipe.outcome.report = pipe.scraping_result
            /\ pipe.status = IF pipe.kind = "run_full_process"
                             THEN "validation_failed" ELSE "failed"

C3_Witness ==
    /\ pipe.kind = "run_pipeline_with_state"
    /\ pipe.pc = "done"
    /\ pipe.scraping_result # None
    /\ ~pipe.scraping_result.passed
    /\ pipe.scraping_result.total_expected = MaxPipeDocs
    /\ pipe.outcome.how = "raise"

-----------------------------------------------------------------------------
(* Properties of one harvest pass *)

\* every outcome recorded so far, of the finished tables and the current one
Outcomes == all_pdfs \o pdfs_data

\* the summary grid is one page: N >= 1 links with a date and a positive
\* count, then one link with a date and the count 0
SentinelPage(w) ==
    /\ Len(w.links) >= 2
    /\ Len(w.links) <= SummaryPageSize
    /\ \A i \in 1..Len(w.links) : w.links[i].fecha # NoFecha
    /\ \A i \in 1..(Len(w.links) - 1) : w.links[i].count > 0
    /\ w.links[Len(w.links)].count = 0

BeforeSentinel(w) == {w.links[i].fecha : i \in 1..(Len(w.links) - 1)}

\* C1: on a summary page of N positive links followed by the zero sentinel,
\* the finished pass has taken up exactly the N identities before the
\* sentinel: none of them is dropped, the sentinel is not taken up.
C1_ExactlyTheLinksBeforeSentinel ==
    (pc = "done" /\ SentinelPage(world)) => visited = BeforeSentinel(world)

\* C2: every row recorded with a pdf_filename names a file of the directory
\* of at least 1000 bytes, also when the file was there before the attempt.
C2_SuccessHasValidFile ==
    \A i \in 1..Len(Outcomes) :
        HasFile(Outcomes[i]) =>
            /\ Exists(disk, Outcomes[i].pdf_filename)
            /\ disk[Outcomes[i].pdf_filename] >= MinPdfBytes

\* C4: two rows of distinct (identity, token) that both ended with a file
\* never share the file: no document is taken as downloaded because the file
\* of another one is at its path.
C4_DistinctRowsDistinctFiles ==
    \A i, j \in 1..Len(Outcomes) :
        ( /\ i < j
          /\ HasFile(Outcomes[i]) /\ HasFile(Outcomes[j])
          /\ <<Outcomes[i].fecha, Outcomes[i].pdf_token>>
                # <<Outcomes[j].fecha, Outcomes[j].pdf_token>> )
        => Outcomes[i].pdf_filename # Outcomes[j].pdf_filename

\* the state right after a pass of the first retry loop
AfterAttempt == last.op \in {"download", "existing"}
RowLeft == AfterAttempt /\ pc = "det_row"

\* C5: in the first pass a row triggers at most 3 downloads; a download below
\* the threshold leaves no file and is followed by another attempt unless the
\* 3 are used up; the loop is left on the first attempt the check accepts; and
\* the row is FAILED exactly when the check accepted none of its attempts.
C5_FirstPassRetryLoop ==
    /\ (pc = "attempt" \/ AfterAttempt) => triggers <= FirstPassAttempts
    /\ (last.op = "download" /\ last.out >= 0 /\ last.out < MinPdfBytes) =>
            /\ ~Exists(disk, FirstPassPath(row_data, link_text))
            /\ pc = "attempt" \/ triggers = FirstPassAttempts
    /\ (AfterAttempt /\ last.ok) => (pc # "attempt" /\ HasFile(row_data))
    /\ RowLeft => (IsFailed(row_data) <=> ~last.ok)
    /\ RowLeft => (IsFailed(row_data) <=> ~HasFile(row_data))
    /\ (RowLeft /\ IsFailed(row_data)) => triggers = FirstPassAttempts

C5_Witness ==
    /\ RowLeft
    /\ IsFailed(row_data)
    /\ triggers = FirstPassAttempts
    /\ last.out = 500

\* C6: a download of exactly 1000 bytes is accepted by the check of the first
\* pass and by the check of the reconciliation, and a file of exactly 1000
\* bytes is not listed as corrupted.
C6_ThresholdInclusive ==
    /\ (last.op \in {"download", "retry"} /\ last.out = MinPdfBytes) => last.ok
    /\ report # None =>
        \A p \in report.corrupted_files : disk[p] # MinPdfBytes

\* C7: when as many rows have a file as have a token,
\* validate_and_retry_downloads returns at once: no download, no file written
\* or deleted, no record changed.
C7_MatchingCountsChangeNothing ==
    [][(pc = "validate" /\ ExpectedPdfs(pdfs_data) = ActualPdfs(pdfs_data)) =>
        /\ pc' = "det_return"
        /\ pdfs_data' = pdfs_data
        /\ disk' = disk
        /\ triggers' = triggers
        /\ all_pdfs' = all_pdfs]_vars

C7_Witness ==
    /\ last.op = "validate"
    /\ last.ok
    /\ pc = "det_return"
    /\ Len(pdfs_data) = MaxRows

\* C8: when validate_and_retry_downloads returns after differing counts, every
\* row that had a token and no file is either a retried success with a valid
\* file or FAILED_FINAL, the rows not found again included; and no row got
\* more than 2 retries.
C8_EveryFailedRowSettled ==
    /\ pc = "vr_attempt" => triggers < ReconcileAttempts
    /\ last.op = "retry" => triggers <= ReconcileAttempts
    /\ (pc = "det_return" /\ Len(failed_records) > 0) =>
        \A k \in 1..Len(failed_records) :
            LET r == pdfs_data[failed_records[k]] IN
                \/ /\ r.retry_success
                   /\ HasFile(r)
                   /\ Exists(disk, r.pdf_filename)
                   /\ disk[r.pdf_filename] >= MinPdfBytes
                \/ r.download_status = "FAILED_FINAL"

C11_MissingMarkerRecorded ==
    [][(pc = "sum_iter" /\ last'.op = "no_marker") =>
            /\ Len(all_pdfs') = Len(all_pdfs) + 1
            /\ ~HasFile(all_pdfs'[Len(all_pdfs')])]_vars

\* an exception has just left process_detail_table and the for loop is at
\* its next link
AfterDetailException ==
    /\ pc = "sum_iter"
    /\ last.op \in {"detail_error", "row_error"}

\* C12: when the for loop comes to the next identity after an exception in
\* the detail table of the one before, the page shows the summary view
\* again.
C12_BackToSummaryAfterException ==
    AfterDetailException => dom.view = "summary"

\* C13: an exception while one row of a detail page is handled stays with
\* that row: the records of the identity are kept and the for loop goes to
\* the next row of the page.
C13_RowExceptionStaysInRow ==
    [][(pc = "det_row" /\ last'.op \in {"row_error", "no_token"}) =>
            /\ pc' = "det_row"
            /\ row_idx' = row_idx + 1
            /\ Len(pdfs_data') >= Len(pdfs_data)]_vars

\* C16: on the last page of the summary grid the loop of the pass does not
\* click the next control again: its next step is the final validation.
C16_LastSummaryPageEndsLoop ==
    [][(pc = "sum_page" /\ shown = NumSummaryPages(world)) =>
            /\ pc' = "final"
            /\ shown' = shown]_vars

Range(f) == {f[i] : i \in DOMAIN f}

\* C17: no date_key is handed to process_detail_table twice in one pass, and
\* no row of a detail table is twice in the outcome list.
C17_NoDateKeyTwice ==
    /\ Cardinality(Range(processed)) = Len(processed)
    /\ \A i, j \in 1..Len(all_pdfs) :
        (all_pdfs[i].fecha = all_pdfs[j].fecha
         /\ all_pdfs[i].pos = all_pdfs[j].pos) => i = j

\* C18: the rows of a detail table are read from its first page on, also
\* when the grid retained a later page, and the page loop is left only on the
\* last page of the table, where the next control is absent or disabled.
C18_AllDetailPagesFromTheFirst ==
    [][/\ last'.op = "reset" => dpage' = 1
       /\ (pc = "det_row" /\ pc' = "validate") =>
            dpage >= NumDetailPages(world, cur_fecha)]_vars

\* C19: the link clicked for an identity is the one found by its date_key
\* in the rendering shown at the click, never an element of a rendering
\* before; and an identity whose link is not found is skipped, the for loop
\* going on.
C19_LinkResolvedAtClick ==
    /\ dom.clicked # None =>
        /\ dom.clicked.gen = dom.clicked.at
        /\ dom.clicked.fecha \in visited
    /\ last.op = "open" => dom.clicked.fecha = cur_fecha
    /\ last.op = "no_link" =>
        /\ pc \in {"sum_iter", "sum_page"}
        /\ last.out \in visited

C19_Witness ==
    /\ last.op = "open"
    /\ dom.clicked.fecha = 2
    /\ dom.clicked.gen > dom.read_gen
    /\ Len(processed) = 2

\* the rows of a table that carry a download control
CarriesToken(r) == r.tok # NoToken
TokenRows(t) == Count(t, CarriesToken)

\* a record made by the first loop of the row, with its file
FirstPassSuccess(r) == HasFile(r) /\ ~r.retry_success

\* the pass had one identity whose table has rows that carry a control, and
\* every such row has its record, made by the first loop of the row
WholeTableFirstPass ==
    /\ pc = "done"
    /\ Len(world.links) = 1
    /\ TokenRows(world.tables[1]) >= 1
    /\ Len(all_pdfs) = TokenRows(world.tables[1])
    /\ \A i \in 1..Len(all_pdfs) : FirstPassSuccess(all_pdfs[i])

\* C20: rows without a download control are not counted: when every row of
\* a detail table that carries a control succeeds in the first loop, the final
\* report has total_expected = total_downloaded = number of such rows,
\* success_rate = 100.0 and passed = true
C20_TokenRowsOnlyAllSucceed ==
    WholeTableFirstPass =>
        /\ report.total_expected = TokenRows(world.tables[1])
        /\ report.total_downloaded = TokenRows(world.tables[1])
        /\ report.success_rate = 10000
        /\ report.passed

\* the pass had one identity, every record of its table has a file, the
\* directory holds no other file, and at least one record got its file from a
\* reconciliation retry
RecoveredByRetry ==
    /\ pc = "done"
    /\ Len(world.links) = 1
    /\ \A i \in 1..Len(all_pdfs) : HasFile(all_pdfs[i])
    /\ \A q \in DOMAIN disk :
          \E i \in 1..Len(all_pdfs) : all_pdfs[i].pdf_filename = q
    /\ \E i \in 1..Len(all_pdfs) :
          all_pdfs[i].download_status = "FAILED" /\ IsRetrySuccess(all_pdfs[i])

\* C21: a row that is FAILED after the first pass and whose reconciliation
\* retry yields a valid file is counted in total_downloaded and in
\* retry_successes of the final report, and when every other row succeeded
\* the report has passed = true
C21_RetrySuccessCountsAndPasses ==
    RecoveredByRetry =>
        /\ report.total_downloaded = Len(all_pdfs)
        /\ report.retry_successes = Count(all_pdfs, IsRetrySuccess)
        /\ report.retry_successes >= 1
        /\ report.passed

\* ScrapingResult of _run_scraping_async: the counts are read from the
\* validation report of the run (orchestrator.py lines 179-194)
RunScrapingAsyncResult(pdfs, validation) ==
    [total_pdfs |-> Len(pdfs),
     successful |-> validation.total_downloaded,
     failed |-> validation.total_expected - validation.total_downloaded,
     validation |-> validation]

\* ScrapingResult of run_with_storage_state: the counts are taken from the
\* list discover_documents returned (orchestrator.py lines 338-353)
RunWithStorageStateResult(pdfs, validation) ==
    [total_pdfs |-> Len(pdfs),
     successful |-> Len(pdfs),
     failed |-> 0,
     validation |-> validation]

\* the results the two scraping paths build once discover_documents has
\* returned its list and written its report
ScrapingResults ==
    {RunScrapingAsyncResult(all_pdfs, report),
     RunWithStorageStateResult(all_pdfs, report)}

\* C40: on both scraping paths the ScrapingResult agrees with the report of
\* the harvest: successful is the report's total_downloaded and failed is
\* total_expected minus total_downloaded
C40_ScrapingResultAgreesWithReport ==
    (pc = "done" /\ report # None) =>
        \A result \in ScrapingResults :
            /\ result.successful = report.total_downloaded
            /\ result.failed
                  = report.total_expected - report.total_downloaded

\* the account numbers the report lists as failed
ListedAsFailed == {report.failed_records[k].nro_cuenta :
                      k \in 1..Len(report.failed_records)}

NoValidFile(r) == ~HasFile(r)

\* C37: in every report failed_records lists exactly the rows with a download
\* control that ended the pass without a valid file: a row recovered by the
\* reconciliation is not listed, a row marked FAILED_FINAL is listed, and
\* total_downloaded + len(failed_records) = total_expected
C37_FailedRecordsAreTheRowsWithoutFile ==
    (pc = "done" /\ report # None) =>
        /\ Len(report.failed_records) = Count(all_pdfs, NoValidFile)
        /\ \A i \in 1..Len(all_pdfs) :
              /\ IsRetrySuccess(all_pdfs[i]) =>
                    all_pdfs[i].cuenta \notin ListedAsFailed
              /\ all_pdfs[i].download_status = "FAILED_FINAL" =>
                    all_pdfs[i].cuenta \in ListedAsFailed
        /\ report.total_downloaded + Len(report.failed_records)
              = report.total_expected

-----------------------------------------------------------------------------
(* Properties of the drivers on runs without a harvest *)

EmptyResult == pipe.discover \in {"no_data_signal", "no_identities"}

\* C14: after a no-data message or a summary grid without identities the
\* scraping call returns a report, and the run does not end failed or with
\* an exception.
C14_EmptyResultIsNoError ==
    EmptyResult =>
        /\ pipe.scraping_result # None
        /\ pipe.pc = "done" =>
            /\ pipe.status # "failed"
            /\ pipe.outcome.how = "return"

\* C15: after the handler of discover_documents has written its results file
\* with status error, the caller of the scraping call holds a result with a
\* validation report.
C15_FatalErrorYieldsReport ==
    pipe.discover = "fatal_error" => pipe.scraping_result # None

StepOrder == <<"scraping", "extraction", "reporting">>

\* the steps of a worker are in order: what comes before a step that is not
\* pending is completed, and one step at most is running
StepsInOrder(st) ==
    /\ \A i \in 2..3 : st[StepOrder[i]] # "pending" =>
                          st[StepOrder[i - 1]] = "completed"
    /\ Cardinality({i \in 1..3 : st[StepOrder[i]] = "running"}) <= 1

\* C32: in run_pipeline and run_pipeline_with_state the steps run in the
\* order scraping, extraction, reporting, one step at most is running, and a
\* step starts only after the one before it is completed; when an exception
\* occurs the status becomes failed, exactly the step that was running is
\* marked failed, the later steps stay pending and the exception is raised
\* again
C32_StepsInOrderAndFailureMarked ==
    [][pipe.kind \in {"run_pipeline", "run_pipeline_with_state"} =>
         /\ StepsInOrder(pipe.steps)
         /\ StepsInOrder(pipe'.steps)
         /\ \A i \in 1..3 :
               (pipe.steps[StepOrder[i]] # pipe'.steps[StepOrder[i]]
                   /\ pipe'.steps[StepOrder[i]] = "running")
                  => /\ pipe.steps[StepOrder[i]] = "pending"
                     /\ \A j \in 1..3 : pipe.steps[StepOrder[j]] # "running"
                                           \/ pipe'.steps[StepOrder[j]] = "completed"
         /\ (pipe'.pc = "done" /\ pipe'.outcome.how = "raise") =>
               /\ pipe'.status = "failed"
               /\ Cardinality({i \in 1..3 :
                     pipe.steps[StepOrder[i]] = "running"}) = 1
               /\ \A i \in 1..3 :
                     pipe'.steps[StepOrder[i]] =
                        IF pipe.steps[StepOrder[i]] = "running" THEN "failed"
                        ELSE pipe.steps[StepOrder[i]]
         /\ (pipe'.pc = "done" /\ pipe'.outcome.how = "return") =>
               /\ pipe'.status = "completed"
               /\ \A i \in 1..3 : pipe'.steps[StepOrder[i]] = "completed"
      ]_vars

\* run_pipeline_with_state raised during the extraction
C32_Witness ==
    /\ pipe.kind = "run_pipeline_with_state"
    /\ pipe.pc = "done"
    /\ pipe.outcome.how = "raise"
    /\ pipe.status = "failed"
    /\ pipe.steps = [scraping |-> "completed", extraction |-> "failed",
                     reporting |-> "pending"]

-----------------------------------------------------------------------------
(* Jobs triggered through the API and the paths they write *)

MaxJobs == 2           \* jobs triggered
MaxClock == 2          \* seconds the clock can advance

JobIds == 1..MaxJobs
Periods == {"febrero_2025", "marzo_2025"}

\* job_id of a trigger: f"{month}_{year}_{int(time.time())}" (main.py lines
\* 149-150 and 254-255)
TriggerJobId(per, now) == [period |-> per, stamp |-> now, by |-> "api"]

\* job_id of a scraping run: f"{month}_{year}_{now:%Y%m%d_%H%M%S}"
\* (orchestrator.py lines 142 and 288)
RunJobId(per, now) == [period |-> per, stamp |-> now, by |-> "orchestrator"]

NoJobId == [period |-> "", stamp |-> 0, by |-> ""]

\* a path of the data directory or of the SFTP server; id is the job
\* identifier in the path, NoJobId when the path has none
JobPath(root, id) == [root |-> root, id |-> id]

\* data/pdfs/<job_id>/ and data/results/<job_id>_results.json
\* (cruzblanca.py lines 855, 993), and the upload of the PDFs to
\* <sftp_base_path>/<job_id>/pdfs (tasks.py lines 100-105)
ScrapePaths(j) ==
    {JobPath("pdfs", j.run_id), JobPath("results", j.run_id),
     JobPath("sftp_pdfs", j.job_id)}

\* data/json/<job_id>_extracted.json (orchestrator.py line 225), and the
\* upload of data/json_output to <sftp_base_path>/<job_id>/json (tasks.py
\* lines 141-146)
ExtractPaths(j) ==
    {JobPath("json", j.run_id), JobPath("json_output", NoJobId),
     JobPath("sftp_json", j.job_id)}

\* data/<job_id>_consolidado.csv and its upload (tasks.py lines 176-190)
ReportPaths(j) ==
    {JobPath("consolidado", j.job_id), JobPath("sftp_reports", j.job_id)}

NewJob == [pc |-> "idle", period |-> "", job_id |-> NoJobId,
           run_id |-> NoJobId]

JobsInit ==
    /\ jobs = [clock |-> 0, job |-> [j \in JobIds |-> NewJob], paths |-> {}]
    /\ IdleHarvest
    /\ IdleFV
    /\ IdlePipe
    /\ IdleSessions
    /\ IdleExt
    /\ IdleViewers

JobsStep(v) ==
    /\ jobs' = v
    /\ UNCHANGED <<harvestVars, fv, pipe, sessions, ext, viewers>>

\* a second passes
JobTick ==
    /\ jobs.clock < MaxClock
    /\ JobsStep([jobs EXCEPT !.clock = @ + 1])

\* trigger_scraping / run_remote_browser: the job gets its identifier and is
\* put on the queue (main.py lines 148-178, 250-300)
JobTrigger(j, per) ==
    /\ jobs.job[j].pc = "idle"
    /\ JobsStep([jobs EXCEPT !.job[j] =
                    [@ EXCEPT !.pc = "queued", !.period = per,
                              !.job_id = TriggerJobId(per, jobs.clock)]])

\* the worker runs the scraping: the orchestrator gives the run its own
\* identifier, the scraper writes below it and the PDFs are uploaded
JobScrape(j) ==
    /\ jobs.job[j].pc = "queued"
    /\ LET r == [jobs.job[j] EXCEPT
                    !.pc = "scraped",
                    !.run_id = RunJobId(jobs.job[j].period, jobs.clock)]
       IN JobsStep([jobs EXCEPT
                      !.job[j] = r,
                      !.paths = @ \cup {[job |-> j, path |-> q] :
                                          q \in ScrapePaths(r)}])

\* run_extraction and the upload of the JSON directory
JobExtract(j) ==
    /\ jobs.job[j].pc = "scraped"
    /\ JobsStep([jobs EXCEPT
                   !.job[j].pc = "extracted",
                   !.paths = @ \cup {[job |-> j, path |-> q] :
                                       q \in ExtractPaths(jobs.job[j])}])

\* the consolidated report and its upload
JobReport(j) ==
    /\ jobs.job[j].pc = "extracted"
    /\ JobsStep([jobs EXCEPT
                   !.job[j].pc = "completed",
                   !.paths = @ \cup {[job |-> j, path |-> q] :
                                       q \in ReportPaths(jobs.job[j])}])

JobsNext ==
    \/ JobTick
    \/ \E j \in JobIds : \E per \in Periods : JobTrigger(j, per)
    \/ \E j \in JobIds : JobScrape(j)
    \/ \E j \in JobIds : JobExtract(j)
    \/ \E j \in JobIds : JobReport(j)

SpecJobs == JobsInit /\ [][JobsNext]_vars

\* C22: the identifiers of two triggered jobs are distinct, every path a job
\* writes or uploads contains an identifier of that job, and no path is
\* written by two jobs
C22_JobsNeverShareAPath ==
    /\ \A j1, j2 \in JobIds :
         (j1 # j2 /\ jobs.job[j1].pc # "idle" /\ jobs.job[j2].pc # "idle")
            => jobs.job[j1].job_id # jobs.job[j2].job_id
    /\ \A w \in jobs.paths :
         w.path.id \in {jobs.job[w.job].job_id, jobs.job[w.job].run_id}
    /\ \A w1, w2 \in jobs.paths :
         w1.job # w2.job => w1.path # w2.path

-----------------------------------------------------------------------------
(* The registry of remote browser sessions: RemoteOrchestrator.active_sessions
   and the background task of /api/v2/run *)

MaxRequests == 2       \* requests to /api/v2/run

Requests == 1..MaxRequests

\* session_id = f"session_{month}_{year}_{int(time.time())}" (main.py lines
\* 355-356)
SessionId(per, now) == [period |-> per, stamp |-> now]

NoSession == [period |-> "", stamp |-> 0]

\* the key is in active_sessions
Registered(sid) == \E e \in sessions.active : e.sid = sid

\* active_sessions[sid]
Entry(sid) == CHOOSE e \in sessions.active : e.sid = sid

\* active_sessions[sid] = session_data (remote_orchestrator.py line 126): an
\* entry under the same key is replaced
Register(active, sid, b) ==
    {e \in active : e.sid # sid}
        \cup {[sid |-> sid, browser |-> b, login_completed |-> FALSE]}

\* wait_for_login is called with timeout_seconds=900 and polls every 2
\* seconds (main.py line 224, remote_orchestrator.py line 162); the model
\* counts the wait in polls
LoginTimeout == 2

\* the requests ask for the same month, the case in which the time alone
\* tells their session ids apart
SessPeriods == {"marzo_2025"}

\* the request before /api/v2/run was called for it
NewRequest ==
    [pc |-> "idle", sid |-> NoSession, elapsed |-> 0, login_ok |-> "",
     storage |-> "", enqueued |-> FALSE, closes |-> 0]

SessInit ==
    /\ sessions = [clock |-> 0,
                   req |-> [r \in Requests |-> NewRequest],
                   active |-> {},
                   browser |-> [r \in Requests |-> "none"],
                   closed_by |-> [r \in Requests |-> 0]]
    /\ IdleHarvest
    /\ IdleFV
    /\ IdlePipe
    /\ IdleJobs
    /\ IdleExt
    /\ IdleViewers

SessStep(v) ==
    /\ sessions' = v
    /\ UNCHANGED <<harvestVars, fv, pipe, jobs, ext, viewers>>

\* a second passes; the time is read only when a request comes in
SessTick ==
    /\ sessions.clock < MaxClock
    /\ \E r \in Requests : sessions.req[r].pc = "idle"
    /\ SessStep([sessions EXCEPT !.clock = @ + 1])

\* run_remote_browser: the session id is made and the background task is
\* created (main.py lines 354-373)
SessRun(r, per) ==
    /\ sessions.req[r].pc = "idle"
    /\ SessStep([sessions EXCEPT
                   !.req[r].pc = "start",
                   !.req[r].sid = SessionId(per, sessions.clock)])

\* start_remote_session: a browser is launched for the request and stored
\* under the session id, or the launch raises and the task goes to its
\* handler (remote_orchestrator.py lines 62-133, main.py lines 210-215).
\* The task then enters wait_for_login without a suspension in between, so
\* the session it has just registered is there and is the one the wait holds
\* (remote_orchestrator.py lines 154-158).
SessStart(r, launched) ==
    /\ sessions.req[r].pc = "start"
    /\ IF launched
       THEN SessStep([sessions EXCEPT
                        !.req[r].pc = "polling",
                        !.browser[r] = "open",
                        !.active = Register(@, sessions.req[r].sid, r)])
       ELSE SessStep([sessions EXCEPT !.req[r].pc = "close"])

PollOutcomes == {"url", "selector", "nothing", "error"}

\* session['login_completed'] = True on the session the wait holds: the one
\* this request registered, wherever it is now
CompleteLogin(active, r) ==
    {IF e.browser = r THEN [e EXCEPT !.login_completed = TRUE] ELSE e :
        e \in active}

\* one turn of the loop of wait_for_login (remote_orchestrator.py lines
\* 167-221): past the ceiling it returns False and the task closes the
\* session; a login seen by the URL or by the selector sets login_completed
\* and returns True; a turn that sees nothing, or whose probe raises, sleeps
\* one interval and comes back to the test of the loop. The test by cookies
\* asks for the URL of the first test and cannot be the one that returns.
SessPoll(r, outcome) ==
    /\ sessions.req[r].pc = "polling"
    /\ IF ~(sessions.req[r].elapsed < LoginTimeout)
       THEN SessStep([sessions EXCEPT !.req[r].pc = "close",
                                      !.req[r].elapsed = 0,
                                      !.req[r].login_ok = "False"])
       ELSE IF outcome \in {"url", "selector"}
       THEN SessStep([sessions EXCEPT
                        !.req[r].pc = "capture",
                        !.req[r].elapsed = 0,
                        !.req[r].login_ok = "True",
                        !.active = CompleteLogin(@, r)])
       ELSE SessStep([sessions EXCEPT !.req[r].elapsed = @ + 1])

StorageStates == {"None", "empty", "cookies"}

\* a test that lets the empty state through
OnlyNoneIsNoStorageState(st) == st = "None"

\* "if not storage_state" of the task: None and the empty dict end it
\* (main.py lines 244-248)
NoStorageState(st) == st \in {"None", "empty"}

\* capture_storage_state: an id that is no longer registered raises and the
\* task goes to its handler; otherwise the state of the context is stored in
\* the session under the id and returned, None when the capture raised
\* (remote_orchestrator.py lines 233-257, main.py lines 239-248)
SessCapture(r, st) ==
    /\ sessions.req[r].pc = "capture"
    /\ LET sid == sessions.req[r].sid IN
       IF ~Registered(sid)
       THEN SessStep([sessions EXCEPT !.req[r].pc = "close"])
       ELSE SessStep([sessions EXCEPT
                        !.req[r].storage = st,
                        !.req[r].pc = IF NoStorageState(st) THEN "close"
                                      ELSE "enqueue"])

\* the job is put on the queue, or the connection to Redis raises and the
\* task goes to its handler (main.py lines 254-310, 315-321)
SessEnqueue(r, queued) ==
    /\ sessions.req[r].pc = "enqueue"
    /\ SessStep([sessions EXCEPT !.req[r].pc = "close",
                                 !.req[r].enqueued = queued])

\* close_session: an unknown id is only logged; otherwise the context, the
\* browser and the driver stored under the id are closed and the entry is
\* deleted, and when one of the three raises the rest of the block is left
\* and the entry stays (remote_orchestrator.py lines 259-295). The task ends
\* after the call.
SessClose(r, closes_cleanly) ==
    /\ sessions.req[r].pc = "close"
    /\ LET sid == sessions.req[r].sid
           called == [sessions EXCEPT !.req[r].pc = "done",
                                      !.req[r].closes = @ + 1]
       IN IF ~Registered(sid) THEN SessStep(called)
          ELSE IF closes_cleanly
          THEN SessStep([called EXCEPT
                           !.browser[Entry(sid).browser] = "closed",
                           !.closed_by[Entry(sid).browser] = r,
                           !.active = @ \ {Entry(sid)}])
          ELSE SessStep(called)

\* get_session_status (remote_orchestrator.py lines 297-317)
GetSessionStatus(sid) ==
    IF ~Registered(sid) THEN None
    ELSE [session_id |-> sid, login_completed |-> Entry(sid).login_completed]

SessNext ==
    \/ SessTick
    \/ \E r \in Requests : \E per \in SessPeriods : SessRun(r, per)
    \/ \E r \in Requests : \E launched \in BOOLEAN : SessStart(r, launched)
    \/ \E r \in Requests : \E outcome \in PollOutcomes : SessPoll(r, outcome)
    \/ \E r \in Requests : \E st \in StorageStates : SessCapture(r, st)
    \/ \E r \in Requests : \E queued \in BOOLEAN : SessEnqueue(r, queued)
    \/ \E r \in Requests : \E cleanly \in BOOLEAN : SessClose(r, cleanly)

SpecSessions == SessInit /\ [][SessNext]_vars

\* the request has started its browser and not yet closed its session
SessionLive(r) ==
    sessions.req[r].pc \in {"polling", "capture", "enqueue", "close"}

\* C30: each session id has a single owner: two requests never hold the same
\* session id, start_remote_session never replaces a live entry (the entry of
\* a live request holds the browser of that request), and a browser is closed
\* only by the request that started it
C30_SingleOwnerPerSession ==
    /\ \A r1, r2 \in Requests :
         (r1 # r2 /\ sessions.req[r1].pc # "idle"
                  /\ sessions.req[r2].pc # "idle")
            => sessions.req[r1].sid # sessions.req[r2].sid
    /\ \A r \in Requests :
         (SessionLive(r) /\ Registered(sessions.req[r].sid))
            => Entry(sessions.req[r].sid).browser = r
    /\ \A r \in Requests : sessions.closed_by[r] \in {0, r}

\* the registry after the step holds, under the id, a session whose login is
\* completed
LoginRecorded(sid) ==
    \E e \in sessions.active : e.sid = sid /\ e.login_completed

\* C31: wait_for_login always returns, and never by an exception: it returns
\* True only after a login signal was detected, and then login_completed is
\* set for that session; it returns False only once the ceiling of the wait
\* has passed, so an error in a turn of the loop does not end the wait early
C31_WaitForLoginReturns ==
    [][\A r \in Requests :
          sessions.req[r].pc = "polling" =>
             /\ sessions'.req[r].pc \in {"polling", "capture", "close"}
             /\ sessions'.req[r].pc = "capture" =>
                   /\ sessions'.req[r].login_ok = "True"
                   /\ sessions.req[r].elapsed < LoginTimeout
                   /\ LoginRecorded(sessions.req[r].sid)'
             /\ sessions'.req[r].pc = "close" =>
                   /\ sessions'.req[r].login_ok = "False"
                   /\ sessions.req[r].elapsed >= LoginTimeout
             /\ sessions'.req[r].pc = "polling" =>
                   sessions'.req[r].elapsed <= LoginTimeout]_vars

\* C33: in background_wait_and_process a job is enqueued only after the login
\* was detected and a non-empty storage state was captured, and on every path
\* (timeout of the login, failed capture, job enqueued, exception) the task
\* has called close_session when it ends
C33_EnqueueAfterLoginAndAlwaysClose ==
    \A r \in Requests :
        /\ sessions.req[r].enqueued =>
              /\ sessions.req[r].login_ok = "True"
              /\ sessions.req[r].storage = "cookies"
        /\ sessions.req[r].pc = "done" => sessions.req[r].closes >= 1
        /\ sessions.req[r].closes >= 1 => sessions.req[r].pc = "done"

\* a task ended after it put its job on the queue, another one after its
\* login timed out
C33_Witness ==
    /\ \E r \in Requests :
          sessions.req[r].pc = "done" /\ sessions.req[r].enqueued
    /\ \E r \in Requests :
          sessions.req[r].pc = "done" /\ sessions.req[r].login_ok = "False"

\* C34: after close_session(session_id) returns, the id is no longer in
\* active_sessions and get_session_status gives None for it, also when the
\* closing of the context, the browser or the driver raised; closing an
\* unknown session leaves the registry unchanged
C34_ClosedSessionIsGone ==
    [][\A r \in Requests :
          (sessions.req[r].pc = "close" /\ sessions'.req[r].pc = "done") =>
             /\ ~Registered(sessions.req[r].sid)'
             /\ GetSessionStatus(sessions.req[r].sid)' = None
             /\ ~Registered(sessions.req[r].sid) =>
                   sessions'.active = sessions.active]_vars

-----------------------------------------------------------------------------
(* One document through the extraction: PDFExtractor._build_resumen and
   _calculate_consistency, PDFValidator.validate, and the two callers that
   write the record (process_pdf_batch and run_extraction) *)

Tolerance == 10        \* "Tolerancia de $10 por redondeos"

Cols == {"prestacion", "bonificado", "caec", "seguro", "copago_afiliado"}

MoneyRow(p, b, c, s, a) ==
    [prestacion |-> p, bonificado |-> b, caec |-> c, seguro |-> s,
     copago_afiliado |-> a]

\* the bono and reembolso rows of the summary table of a document
BonoRows ==
    {MoneyRow(0, 0, 0, 0, 0),
     MoneyRow(100, 100, 0, 0, 0),
     MoneyRow(600000, 400000, 0, 0, 200000)}
ReembolsoRows ==
    {MoneyRow(0, 0, 0, 0, 0),
     MoneyRow(400000, 300000, 0, 0, 100000),
     MoneyRow(400000, 300000, 0, 0, 99995)}

\* what the totales row shows beyond bono + reembolso, in one of its cells
Deltas == {-11, -10, -5, 0, 5, 10, 11}

RowSum(r1, r2) == [c \in Cols |-> r1[c] + r2[c]]

Abs(x) == IF x < 0 THEN -x ELSE x

\* the three percentages, each as <<numerator, denominator>> (extractor.py
\* lines 78-91)
Porcentajes(totales) ==
    IF totales.prestacion > 0
    THEN [bonificado_sobre_prestacion |->
              <<totales.bonificado, totales.prestacion>>,
          caec_sobre_prestacion |-> <<totales.caec, totales.prestacion>>,
          seguro_sobre_prestacion |-> <<totales.seguro, totales.prestacion>>]
    ELSE [bonificado_sobre_prestacion |-> <<0, 1>>,
          caec_sobre_prestacion |-> <<0, 1>>,
          seguro_sobre_prestacion |-> <<0, 1>>]

\* totales_igual_bono_mas_reembolso (extractor.py lines 114-119)
Eq1(filas) ==
    /\ filas.totales.prestacion
          = filas.bono.prestacion + filas.reembolso.prestacion
    /\ filas.totales.bonificado
          = filas.bono.bonificado + filas.reembolso.bonificado
    /\ filas.totales.caec = filas.bono.caec + filas.reembolso.caec

\* faulty variant: the components compared without a tolerance
Eq2Exact(filas) ==
    filas.totales.prestacion
       = filas.totales.bonificado + filas.totales.caec
            + filas.totales.seguro + filas.totales.copago_afiliado

\* prestacion_igual_suma_componentes (extractor.py lines 121-129)
Eq2(filas) ==
    Abs(filas.totales.prestacion
          - (filas.totales.bonificado + filas.totales.caec
               + filas.totales.seguro + filas.totales.copago_afiliado))
       <= Tolerance

\* faulty variant: the seguro column left out
CopagoTeoricoSinSeguro(totales) ==
    totales.prestacion - totales.bonificado - totales.caec

\* copago_teorico (extractor.py lines 131-137)
CopagoTeorico(totales) ==
    totales.prestacion - totales.bonificado - totales.caec - totales.seguro

\* copago_teorico_igual_presentado (extractor.py line 138)
Eq3(filas) ==
    Abs(CopagoTeorico(filas.totales) - filas.totales.copago_afiliado)
       <= Tolerance

\* _calculate_consistency (extractor.py lines 101-150)
CalculateConsistency(filas) ==
    [ecuaciones |->
        [totales_igual_bono_mas_reembolso |-> Eq1(filas),
         prestacion_igual_suma_componentes |-> Eq2(filas),
         copago_teorico_igual_presentado |-> Eq3(filas)],
     copago_teorico |-> CopagoTeorico(filas.totales),
     diferencia_copago |->
        CopagoTeorico(filas.totales) - filas.totales.copago_afiliado]

\* s.replace(c, '') for every c of the set
RECURSIVE Without(_, _)
Without(s, removed) ==
    IF s = <<>> THEN <<>>
    ELSE IF Head(s) \in removed THEN Without(Tail(s), removed)
         ELSE <<Head(s)>> \o Without(Tail(s), removed)

\* The head of a document as the parser reads it. A text is the sequence
\* of its characters and a date the numbers <<day, month, year>> of a text
\* dd/mm/yyyy. NoText is the value of a pattern that did not match, None,
\* where the parser gives it, and the empty text where a normaliser gives
\* it (pdf_parser.py lines 28-120).
NoText == <<>>

RawDates == {NoText, <<21, 10, 2025>>, <<29, 2, 2024>>, <<31, 2, 2025>>}

RawRuts == {NoText, <<"1", "1", ",", "1", "1", "9", "-", "6">>,
            <<"1", "0", ",", "4", "0", "9", "-", "k">>}

RawCodes == {"None", "2PLS041"}

SubtotalFields == {"valor_total", "bonificacion", "caec", "seguro", "copago"}

\* the detail tables of the document: none, or one section with its
\* subtotal and the number of its items
RawDetalles ==
    {<<>>,
     <<[seccion |-> "Hoteleria",
        subtotal |-> [valor_total |-> 4709055, bonificacion |-> 3296338,
                      caec |-> 0, seguro |-> 0, copago |-> 1412717],
        items |-> 2]>>}

\* extract_dates, extract_cotizante, extract_paciente, extract_plan_info and
\* extract_detalle_tables: what each call of the parser gives for the
\* document. A person that is not found has neither a rut nor a nombre;
\* extract_plan_info gives every key, with None where nothing matched
ParsedHead(e, r, c, d) ==
    [dates |-> [emision |-> e, fecha_entrega |-> e],
     cotizante |-> [rut |-> r],
     paciente |-> [rut |-> r],
     plan_info |-> [codigo |-> c, n_spm |-> c],
     detalle |-> d]

\* d.get(k, default)
Get(d, k, default) == IF k \in DOMAIN d THEN d[k] ELSE default

LeapYear(y) == (y % 4 = 0 /\ y % 100 # 0) \/ y % 400 = 0

DaysIn(m, y) ==
    IF m = 2 THEN (IF LeapYear(y) THEN 29 ELSE 28)
    ELSE IF m \in {4, 6, 9, 11} THEN 30 ELSE 31

\* datetime.strptime(date_str, "%d/%m/%Y") does not raise ValueError
IsDate(t) ==
    /\ t[2] \in 1..12
    /\ t[1] \in 1..DaysIn(t[2], t[3])
    /\ t[3] >= 1

\* PDFExtractor._normalize_date: the ISO date <<year, month, day>>, None for
\* no text and for a text that is no date (extractor.py lines 160-170)
NormalizeDate(t) ==
    IF t = NoText THEN NoText
    ELSE IF IsDate(t) THEN <<t[3], t[2], t[1]>> ELSE NoText

\* PDFValidator._normalize_date (pdf_validator.py lines 290-299)
ValidatorNormalizeDate(t) ==
    IF t = NoText THEN NoText
    ELSE IF IsDate(t) THEN <<t[3], t[2], t[1]>> ELSE NoText

\* str.upper() on the characters of a RUT
Upper(s) == [i \in 1..Len(s) |-> IF s[i] = "k" THEN "K" ELSE s[i]]

\* PDFExtractor._normalize_rut (extractor.py lines 152-158)
NormalizeRut(s) ==
    IF s = NoText THEN NoText ELSE Upper(Without(s, {".", ",", " "}))

\* faulty variant: the RUT compared as it is printed
RutAsPrinted(s) == s

\* PDFValidator._normalize_rut (pdf_validator.py lines 284-288)
ValidatorNormalizeRut(s) ==
    IF s = NoText THEN NoText ELSE Upper(Without(s, {".", ",", " "}))

\* _build_person strips the nombre of the person, which is None when the
\* person was not found: the call raises (extractor.py lines 49-54)
BuildPersonRaises(person) == person.rut = NoText

\* the head of the record: _build_document, _build_person, _build_plan and
\* the detalle of extract_from_file (extractor.py lines 19-69)
BuildHead(head) ==
    [document |->
        [emision |-> NormalizeDate(Get(head.dates, "emision", NoText)),
         fecha_entrega |->
            NormalizeDate(Get(head.dates, "fecha_entrega", NoText))],
     cotizante |-> [rut |-> NormalizeRut(Get(head.cotizante, "rut", NoText))],
     paciente |-> [rut |-> NormalizeRut(Get(head.paciente, "rut", NoText))],
     plan |-> [codigo |-> Get(head.plan_info, "codigo", ""),
               n_spm |-> Get(head.plan_info, "n_spm", "")],
     detalle |-> head.detalle]

\* the error of a field in which the document and the record differ
Mismatch(field, pdf, json) == IF pdf # json THEN {field} ELSE {}

\* _validate_detalle: a different number of sections is one error and ends
\* the comparison; otherwise the subtotal and the number of items of each
\* section are compared (pdf_validator.py lines 185-222)
DetalleErrors(pdf, json) ==
    IF Len(pdf) # Len(json) THEN {<<"detalle", "secciones_count">>}
    ELSE UNION {{<<i, f>> : f \in {g \in SubtotalFields :
                                      pdf[i].subtotal[g] # json[i].subtotal[g]}}
                \cup Mismatch(<<i, "items_count">>,
                              pdf[i].items, json[i].items) :
                i \in 1..Len(pdf)}

\* _validate_resumen: the amounts of the three rows (pdf_validator.py
\* lines 224-262)
ResumenErrors(filas, resumen) ==
    {<<f, c>> \in {"bono", "reembolso", "totales"} \X Cols :
        filas[f][c] # resumen.filas[f][c]}

\* _validate_content: the fields in which a second parse of the document
\* differs from the record (pdf_validator.py lines 70-262)
ContentErrors(head, filas, json, resumen) ==
    UNION {Mismatch(<<"document", "emision">>,
                    ValidatorNormalizeDate(Get(head.dates, "emision", NoText)),
                    json.document.emision),
           Mismatch(<<"document", "fecha_entrega">>,
                    ValidatorNormalizeDate(
                        Get(head.dates, "fecha_entrega", NoText)),
                    json.document.fecha_entrega),
           Mismatch(<<"cotizante", "rut">>,
                    ValidatorNormalizeRut(Get(head.cotizante, "rut", NoText)),
                    json.cotizante.rut),
           Mismatch(<<"paciente", "rut">>,
                    ValidatorNormalizeRut(Get(head.paciente, "rut", NoText)),
                    json.paciente.rut),
           Mismatch(<<"plan", "codigo">>,
                    Get(head.plan_info, "codigo", "None"),
                    Get(json.plan, "codigo", "None")),
           Mismatch(<<"plan", "n_spm">>,
                    Get(head.plan_info, "n_spm", "None"),
                    Get(json.plan, "n_spm", "None")),
           DetalleErrors(head.detalle, json.detalle),
           ResumenErrors(filas, resumen)}

\* _build_resumen (extractor.py lines 71-99)
BuildResumen(filas) ==
    [filas |-> filas,
     porcentajes |-> Porcentajes(filas.totales),
     consistencia |-> CalculateConsistency(filas)]

InUnitInterval(q) == q[1] >= 0 /\ q[1] <= q[2]

\* jsonschema.validate raises on the first violation: one error or none. The
\* schema bounds the percentages by 0 and 1 (json_schema.py lines 168-177);
\* other_defect stands for a violation anywhere else in the document
SchemaErrors(resumen, other_defect) ==
    IF other_defect
       \/ \E k \in DOMAIN resumen.porcentajes :
             ~InUnitInterval(resumen.porcentajes[k])
    THEN 1 ELSE 0

\* _validate_numeric_consistency: one error per false equation
\* (pdf_validator.py lines 264-280)
ConsistencyErrors(resumen) ==
    Cardinality({k \in DOMAIN resumen.consistencia.ecuaciones :
                    ~resumen.consistencia.ecuaciones[k]})

\* PDFValidator.validate: schema, content and consistency errors together
\* (pdf_validator.py lines 12-44)
ValidatorValidate(resumen, other_defect, content_errors) ==
    [is_valid |-> SchemaErrors(resumen, other_defect) + content_errors
                     + ConsistencyErrors(resumen) = 0,
     total_errors |-> SchemaErrors(resumen, other_defect) + content_errors
                         + ConsistencyErrors(resumen)]

ExtInit ==
    /\ \E bono \in BonoRows : \E reembolso \in ReembolsoRows :
         \E c \in Cols : \E d \in Deltas :
           \E od \in BOOLEAN : \E e \in RawDates : \E r \in RawRuts :
            \E code \in RawCodes : \E det \in RawDetalles :
             /\ bono[c] + reembolso[c] + d >= 0
             /\ ext = [filas |-> [bono |-> bono, reembolso |-> reembolso,
                                  totales |->
                                     [RowSum(bono, reembolso) EXCEPT
                                         ![c] = @ + d]],
                       other_defect |-> od,
                       head |-> ParsedHead(e, r, code, det),
                       json |-> None,
                       pc |-> "parsed",
                       caller |-> "",
                       resumen |-> None,
                       validation |-> None,
                       written |-> FALSE]
    /\ IdleHarvest
    /\ IdleFV
    /\ IdlePipe
    /\ IdleJobs
    /\ IdleSessions
    /\ IdleViewers

\* the content errors of validating the record against its own document
ContentMismatches == ContentErrors(ext.head, ext.filas, ext.json, ext.resumen)

ExtStep(v) ==
    /\ ext' = v
    /\ UNCHANGED <<harvestVars, fv, pipe, jobs, sessions, viewers>>

\* extract_from_file, called by process_pdf_batch (extract_batch.py line 108)
\* or by extract_from_directory for run_extraction (extractor.py line 203)
ExtExtract(caller) ==
    /\ ext.pc = "parsed"
    /\ IF BuildPersonRaises(ext.head.cotizante)
          \/ BuildPersonRaises(ext.head.paciente)
       THEN ExtStep([ext EXCEPT !.pc = "raised", !.caller = caller])
       ELSE ExtStep([ext EXCEPT !.pc = "extracted",
                               !.caller = caller,
                               !.json = BuildHead(ext.head),
                               !.resumen = BuildResumen(ext.filas)])

\* process_pdf_batch validates the record and writes it to the output
\* directory when it is valid, to the error log otherwise (extract_batch.py
\* lines 110-157)
ExtBatchValidate ==
    /\ ext.pc = "extracted"
    /\ ext.caller = "process_pdf_batch"
    /\ LET v == ValidatorValidate(ext.resumen, ext.other_defect,
                                  Cardinality(ContentMismatches))
       IN ExtStep([ext EXCEPT !.pc = "done",
                              !.validation = v,
                              !.written = v.is_valid])

\* extract_from_directory appends the record to the documents of the run and
\* run_extraction saves them (extractor.py lines 200-212, orchestrator.py
\* lines 218-228)
ExtRunExtraction ==
    /\ ext.pc = "extracted"
    /\ ext.caller = "run_extraction"
    /\ ExtStep([ext EXCEPT !.pc = "done", !.written = TRUE])

ExtNext ==
    \/ \E caller \in {"process_pdf_batch", "run_extraction"} :
          ExtExtract(caller)
    \/ ExtBatchValidate
    \/ ExtRunExtraction

SpecExt == ExtInit /\ [][ExtNext]_vars

Flags == ext.resumen.consistencia.ecuaciones

\* process_pdf_batch has handled a record without a schema error and without
\* a content error, of which at least one consistency flag is false
OnlyDefectIsAFalseFlag ==
    /\ ext.pc = "done"
    /\ ext.caller = "process_pdf_batch"
    /\ SchemaErrors(ext.resumen, ext.other_defect) = 0
    /\ ContentMismatches = {}
    /\ \E k \in DOMAIN Flags : ~Flags[k]

\* C23: a false consistency equation is recorded as data and never causes
\* rejection: a record whose only defect is a false flag is accepted by the
\* validation and written to the validated output
C23_FalseFlagIsNotRejected ==
    OnlyDefectIsAFalseFlag => (ext.validation.is_valid /\ ext.written)

\* C24: a record is written to the output of the extraction only if the
\* schema validator and the consistency validator reported no error for it,
\* by process_pdf_batch as well as by run_extraction
C24_WrittenOnlyIfBothValidatorsPass ==
    (ext.pc = "done" /\ ext.written) =>
        /\ SchemaErrors(ext.resumen, ext.other_defect) = 0
        /\ ConsistencyErrors(ext.resumen) = 0

\* C25: totales_igual_bono_mas_reembolso is true exactly when, in every money
\* column, the totales value is within 10 of bono + reembolso
C25_TotalsFlagWithinTolerance ==
    ext.resumen # None =>
        (Flags.totales_igual_bono_mas_reembolso <=>
            \A c \in Cols :
                Abs(ext.filas.totales[c]
                      - (ext.filas.bono[c] + ext.filas.reembolso[c])) <= 10)

\* the signed difference between the theoretical and the presented copago
SignedCopagoDifference ==
    (ext.filas.totales.prestacion - ext.filas.totales.bonificado
        - ext.filas.totales.caec - ext.filas.totales.seguro)
      - ext.filas.totales.copago_afiliado

\* the totales row 1000000 / 700000 / 0 / 0 / 299995
CopagoExample ==
    ext.filas.totales = MoneyRow(1000000, 700000, 0, 0, 299995)

\* C26: copago_teorico_igual_presentado is true exactly when the absolute
\* value of (prestacion - bonificado - caec - seguro) - copago_afiliado on the
\* totales row is at most 10, and diferencia_copago is that signed difference;
\* for 1000000, 700000, 0, 0 and 299995 the difference is 5 and the flag true
C26_CopagoFlagAndDifference ==
    ext.resumen # None =>
        /\ Flags.copago_teorico_igual_presentado
              <=> (SignedCopagoDifference <= 10
                   /\ SignedCopagoDifference >= -10)
        /\ ext.resumen.consistencia.diferencia_copago = SignedCopagoDifference
        /\ CopagoExample =>
              /\ ext.resumen.consistencia.diferencia_copago = 5
              /\ Flags.copago_teorico_igual_presentado

C26_Witness ==
    /\ ext.resumen # None
    /\ CopagoExample
    /\ ext.resumen.consistencia.diferencia_copago = 5

\* C27: in every record built by _build_resumen each of the three percentages
\* lies between 0 and 1, and all three are 0 when the total prestacion is 0
C27_PercentagesInUnitInterval ==
    ext.resumen # None =>
        /\ \A k \in DOMAIN ext.resumen.porcentajes :
              InUnitInterval(ext.resumen.porcentajes[k])
        /\ ext.filas.totales.prestacion = 0 =>
              \A k \in DOMAIN ext.resumen.porcentajes :
                  ext.resumen.porcentajes[k][1] = 0

\* C39: whatever the integer amounts of the totales row are, the flags
\* prestacion_igual_suma_componentes and copago_teorico_igual_presentado of
\* the record have the same value
C39_ComponentAndCopagoFlagsAgree ==
    ext.resumen # None =>
        (Flags.prestacion_igual_suma_componentes
            <=> Flags.copago_teorico_igual_presentado)

\* a record whose totales row is off by more than the tolerance: both flags
\* are false
C39_Witness ==
    /\ ext.resumen # None
    /\ Abs(SignedCopagoDifference) > Tolerance
    /\ ~Flags.prestacion_igual_suma_componentes
    /\ ~Flags.copago_teorico_igual_presentado

\* C38: validating the record the extractor built from a document against
\* that same document never gives a content error: the second parse agrees
\* with the record on the dates, the RUTs, the plan code, the SPM number, the
\* subtotals and item counts of the sections and the rows of the summary, so
\* such a record is invalid only by a schema error or a false consistency
\* flag
C38_OwnRecordHasNoContentError ==
    /\ ext.json # None => ContentMismatches = {}
    /\ ext.validation # None =>
          /\ ext.validation.total_errors =
                SchemaErrors(ext.resumen, ext.other_defect)
                   + ConsistencyErrors(ext.resumen)
          /\ ~ext.validation.is_valid =>
                \/ SchemaErrors(ext.resumen, ext.other_defect) > 0
                \/ \E k \in DOMAIN Flags : ~Flags[k]

\* a record with a RUT whose check digit is printed in lower case, a date
\* that is no date, a plan without a code and a detail section was validated
C38_Witness ==
    /\ ext.validation # None
    /\ ext.json.cotizante.rut # ext.head.cotizante.rut
    /\ "k" \in {ext.head.cotizante.rut[i] :
                  i \in 1..Len(ext.head.cotizante.rut)}
    /\ ext.head.dates.emision # NoText
    /\ ext.json.document.emision = NoText
    /\ ext.head.plan_info.codigo = "None"
    /\ ext.head.detalle # <<>>
    /\ ContentMismatches = {}

-----------------------------------------------------------------------------
(* The detail sections of a document: PDFParser._extract_hoteleria and
   _extract_examenes over the lines of the text *)

MaxBody == 4           \* lines between the column header and the SubTotal line

Sections == {"Hoteleria", "Examenes"}

\* A line of the text, by what the parser can tell of it: the start label of
\* the section, its SubTotal label, a line the row pattern of
\* _parse_detail_line matches, a blank line, or any other text.
BodyKinds == {"row", "blank", "text"}

\* the text of a document with one section: a title, the start label, the
\* column header, the lines of the section, the SubTotal label and the line
\* of its amounts
SectionLines(b) ==
    <<"text", "label", "text">> \o b \o <<"subtotal", "text">>

\* self.lines[i] for the index i of the code, which counts from 0
LineAt(lines, i) == lines[i + 1]

NoIdx == -1

\* the first loop of both functions: the indexes of the start label and of
\* the SubTotal label (pdf_parser.py lines 148-153, 183-190); _extract_hoteleria
\* tests "if start_idx", which is false for index 0 as well as for None
RECURSIVE ScanLabels(_, _, _, _)
ScanLabels(lines, sec, i, start) ==
    IF i >= Len(lines) THEN [start |-> start, end |-> NoIdx]
    ELSE LET st == IF LineAt(lines, i) = "label"
                      /\ (sec = "Hoteleria" \/ start = NoIdx)
                   THEN i ELSE start
             seen == IF sec = "Hoteleria" THEN st > 0 ELSE st # NoIdx
         IN IF seen /\ LineAt(lines, i) = "subtotal"
            THEN [start |-> st, end |-> i]
            ELSE ScanLabels(lines, sec, i + 1, st)

\* the second loop: the items of the lines from start_idx + 2 up to the
\* SubTotal label. _extract_hoteleria leaves the loop on an empty line
\* (pdf_parser.py lines 160-163), _extract_examenes goes on to the next line
\* (lines 200-202); a line the pattern does not match gives no item.
RECURSIVE ItemsFrom(_, _, _, _, _)
ItemsFrom(lines, sec, i, end, acc) ==
    IF i >= end THEN acc
    ELSE LET line == LineAt(lines, i) IN
         IF line = "blank"
         THEN IF sec = "Hoteleria" THEN acc
              ELSE ItemsFrom(lines, sec, i + 1, end, acc)
         ELSE IF line = "subtotal" THEN acc
         ELSE IF line = "row"
              THEN ItemsFrom(lines, sec, i + 1, end, Append(acc, i))
              ELSE ItemsFrom(lines, sec, i + 1, end, acc)

\* _extract_hoteleria / _extract_examenes: the indexes of the lines that
\* became items, or None when the section is not in the text
ExtractSection(lines, sec) ==
    LET idx == ScanLabels(lines, sec, 0, NoIdx) IN
    IF idx.start = NoIdx \/ idx.start = 0 THEN None
    ELSE [items |-> ItemsFrom(lines, sec, idx.start + 2,
                              IF idx.end > 0 THEN idx.end ELSE Len(lines),
                              <<>>)]

SectionInit ==
    /\ \E b \in SeqsUpTo(BodyKinds, MaxBody) : \E sec \in Sections :
          ext = [lines |-> SectionLines(b), body |-> b, seccion |-> sec,
                 result |-> None, pc |-> "text"]
    /\ IdleHarvest
    /\ IdleFV
    /\ IdlePipe
    /\ IdleJobs
    /\ IdleSessions
    /\ IdleViewers

\* extract_detalle_tables calls the function of the section (lines 123-140)
SectionExtract ==
    /\ ext.pc = "text"
    /\ ExtStep([ext EXCEPT !.pc = "extracted",
                           !.result = ExtractSection(ext.lines, ext.seccion)])

SectionNext == SectionExtract

SpecSection == SectionInit /\ [][SectionNext]_vars

\* the lines between the labels that the row pattern matches
MatchingLines == {i \in 1..Len(ext.body) : ext.body[i] = "row"}

\* C28: between the start label of a section and its SubTotal label every
\* line that matches the row pattern becomes one item and every other line,
\* a blank line included, is skipped without ending the section, in the
\* Hoteleria section as in the Examenes section: the number of items is the
\* number of matching lines between the labels
C28_ItemsAreTheMatchingLines ==
    ext.pc = "extracted" =>
        /\ ext.result # None
        /\ Len(ext.result.items) = Cardinality(MatchingLines)

-----------------------------------------------------------------------------
(* Amounts: PDFParser._parse_amount over the text of one amount. A text is
   the sequence of its characters. *)

MaxAmount == 1100      \* every amount up to it is rendered and parsed

\* amounts with two and three groups of thousands, with zeros inside a group
LargeAmounts == {125880, 299995, 999999, 1000000, 1000005, 4709055, 123456789}

Amounts == (0..MaxAmount) \cup LargeAmounts

NoAmount == -1

DigitChars == <<"0", "1", "2", "3", "4", "5", "6", "7", "8", "9">>

DigitOf(c) == CHOOSE d \in 0..9 : DigitChars[d + 1] = c

IsDigit(c) == \E d \in 0..9 : DigitChars[d + 1] = c

\* str(n) of a non-negative integer
RECURSIVE Decimal(_)
Decimal(n) ==
    IF n < 10 THEN <<DigitChars[n + 1]>>
    ELSE Append(Decimal(n \div 10), DigitChars[(n % 10) + 1])

\* the three digits of a group after the first one
Group3(g) ==
    <<DigitChars[(g \div 100) + 1], DigitChars[((g \div 10) % 10) + 1],
      DigitChars[(g % 10) + 1]>>

\* the digits of n in groups of three joined by the separator
RECURSIVE Grouped(_, _)
Grouped(n, sep) ==
    IF n < 1000 THEN Decimal(n)
    ELSE Grouped(n \div 1000, sep) \o <<sep>> \o Group3(n % 1000)

\* the currency rendering of n: the dollar sign, an optional space and the
\* grouped digits, as in "$125,880" and in f"${n:,}"
Currency(n, sep, space) ==
    <<"$">> \o (IF space THEN <<" ">> ELSE <<>>) \o Grouped(n, sep)

RECURSIVE LStrip(_)
LStrip(s) ==
    IF s # <<>> /\ Head(s) = " " THEN LStrip(Tail(s)) ELSE s

RECURSIVE RStrip(_)
RStrip(s) ==
    IF s # <<>> /\ s[Len(s)] = " " THEN RStrip(SubSeq(s, 1, Len(s) - 1)) ELSE s

\* s.strip()
Strip(s) == RStrip(LStrip(s))

RECURSIVE DigitsValue(_)
DigitsValue(s) ==
    IF s = <<>> THEN 0
    ELSE DigitsValue(SubSeq(s, 1, Len(s) - 1)) * 10 + DigitOf(s[Len(s)])

\* int(s) of a stripped text: an optional sign and one digit or more give the
\* number, any other text raises ValueError
IntOf(s) ==
    LET signed == s # <<>> /\ Head(s) \in {"-", "+"}
        digits == IF signed THEN Tail(s) ELSE s
    IN IF digits # <<>> /\ \A i \in 1..Len(digits) : IsDigit(digits[i])
       THEN [raised |-> "",
             value |-> IF signed /\ Head(s) = "-" THEN 0 - DigitsValue(digits)
                       ELSE DigitsValue(digits)]
       ELSE [raised |-> "ValueError", value |-> 0]

Placeholders == {<<"-", "-", "-">>, <<"-", "-", "-", "-", "-", "-", "-">>}

\* the body of _parse_amount, for the characters its replace calls remove;
\* the ValueError of int is caught and gives 0
ParseAmountRemoving(value, removed) ==
    IF value.none THEN [raised |-> "", value |-> 0]
    ELSE LET s == Strip(Without(value.chars, removed)) IN
         IF s = <<>> \/ s = <<"0">> \/ s \in Placeholders
         THEN [raised |-> "", value |-> 0]
         ELSE LET r == IntOf(s) IN
              IF r.raised = "ValueError" THEN [raised |-> "", value |-> 0]
              ELSE r

\* a _parse_amount that leaves the points in the text
ParseAmountKeepingPoints(value) == ParseAmountRemoving(value, {"$", ","})

\* PDFParser._parse_amount
ParseAmount(value) == ParseAmountRemoving(value, {"$", ",", "."})

Text(chars) == [none |-> FALSE, chars |-> chars]

\* values that stand for no amount: None, the empty text, blanks, the two
\* placeholders of the documents, and texts int cannot read
NoAmountValues ==
    {[none |-> TRUE, chars |-> <<>>]}
    \cup {Text(c) : c \in Placeholders}
    \cup {Text(<<>>), Text(<<" ">>), Text(<<"$">>), Text(<<"$", " ">>),
          Text(<<"N", "/", "A">>), Text(<<"a", "b", "c">>),
          Text(<<"1", "2", "a">>), Text(<<"1", " ", "2">>),
          Text(<<"-">>), Text(<<"$", "-", "-", "-">>)}

AmountInit ==
    /\ \/ \E n \in Amounts : \E sep \in {",", "."} : \E space \in BOOLEAN :
             ext = [n |-> n, value |-> Text(Currency(n, sep, space)),
                    result |-> None, pc |-> "text"]
       \/ \E v \in NoAmountValues :
             ext = [n |-> NoAmount, value |-> v, result |-> None,
                    pc |-> "text"]
    /\ IdleHarvest
    /\ IdleFV
    /\ IdlePipe
    /\ IdleJobs
    /\ IdleSessions
    /\ IdleViewers

\* one call of _parse_amount
AmountParse ==
    /\ ext.pc = "text"
    /\ ExtStep([ext EXCEPT !.pc = "parsed", !.result = ParseAmount(ext.value)])

AmountNext == AmountParse

SpecAmount == AmountInit /\ [][AmountNext]_vars

\* C29: for every non-negative integer n, _parse_amount of the currency
\* rendering of n (dollar sign, thousands separators) returns n, and for a
\* placeholder, an empty or an unparsable value it returns 0; no call raises
C29_ParseAmountRoundTripsAndIsTotal ==
    ext.pc = "parsed" =>
        /\ ext.result.raised = ""
        /\ ext.n # NoAmount => ext.result.value = ext.n
        /\ ext.n = NoAmount => ext.result.value = 0

\* an amount of three groups, written with its separators, was read back
C29_Witness ==
    /\ ext.pc = "parsed"
    /\ ext.n >= 1000000
    /\ Len(ext.value.chars) > Len(Decimal(ext.n)) + 2
    /\ ext.result.value = ext.n

-----------------------------------------------------------------------------
(* The slots of the viewer containers: ViewerManager.get_or_create_viewer and
   release_slot. A dict is the set of its <<key, value>> pairs. *)

PoolSize == 3          \* len(PORT_POOL), 10 in the program

\* one client more than there are slots
Clients == 1..(PoolSize + 1)

Slots == 0..(PoolSize - 1)

NoSlot == -1

HasKey(d, k) == \E p \in d : p[1] = k

\* d[k]
Lookup(d, k) == (CHOOSE p \in d : p[1] = k)[2]

\* d[k] = v
Store(d, k, v) == {p \in d : p[1] # k} \cup {<<k, v>>}

\* del d[k]
Delete(d, k) == {p \in d : p[1] # k}

\* a search that always answers with the first slot of the pool
AlwaysFirstSlot(slot_clients) == 0

\* "for idx, ports in enumerate(PORT_POOL): if idx not in self.slot_clients":
\* the first free slot, or none
FirstFreeSlot(slot_clients) ==
    IF \A i \in Slots : HasKey(slot_clients, i) THEN NoSlot
    ELSE CHOOSE i \in Slots :
            /\ ~HasKey(slot_clients, i)
            /\ \A j \in Slots : j < i => HasKey(slot_clients, j)

\* what _get_or_start_container can end with: a container that runs, or the
\* HTTPException it raises when the image is missing or the creation fails
DockerOutcomes == {"running", "ImageNotFound", "CreateFailed"}

ContainerError(docker) == IF docker = "running" THEN "" ELSE docker

ViewersInit ==
    /\ viewers = [client_slots |-> {}, slot_clients |-> {},
                  last |-> [op |-> "", client |-> 0, held |-> NoSlot,
                            slot_index |-> NoSlot, error |-> ""]]
    /\ IdleHarvest
    /\ IdleFV
    /\ IdlePipe
    /\ IdleJobs
    /\ IdleSessions
    /\ IdleExt

ViewersStep(v) ==
    /\ viewers' = v
    /\ UNCHANGED <<harvestVars, fv, pipe, jobs, sessions, ext>>

\* get_or_create_viewer(client_id): a client with a slot goes on with it; a
\* new client takes the first free slot, which is written to both maps before
\* the container is looked for; without a free slot the call raises 429
ViewerGet(c, docker) ==
    LET cs == viewers.client_slots
        sc == viewers.slot_clients
        held == IF HasKey(cs, c) THEN Lookup(cs, c) ELSE NoSlot
        idx == FirstFreeSlot(sc)
        answer(slot) ==
            [op |-> "get", client |-> c, held |-> held,
             slot_index |-> IF docker = "running" THEN slot ELSE NoSlot,
             error |-> ContainerError(docker)]
    IN  IF held # NoSlot
        THEN ViewersStep([viewers EXCEPT !.last = answer(held)])
        ELSE IF idx # NoSlot
        THEN ViewersStep([viewers EXCEPT
                            !.client_slots = Store(cs, c, idx),
                            !.slot_clients = Store(sc, idx, c),
                            !.last = answer(idx)])
        ELSE ViewersStep([viewers EXCEPT
                            !.last = [op |-> "get", client |-> c,
                                      held |-> held, slot_index |-> NoSlot,
                                      error |-> "429"]])

\* release_slot(client_id)
ViewerRelease(c) ==
    LET cs == viewers.client_slots
        held == IF HasKey(cs, c) THEN Lookup(cs, c) ELSE NoSlot
        answer == [op |-> "release", client |-> c, held |-> held,
                   slot_index |-> NoSlot, error |-> ""]
    IN  IF held # NoSlot
        THEN ViewersStep([viewers EXCEPT
                            !.client_slots = Delete(cs, c),
                            !.slot_clients = Delete(viewers.slot_clients, held),
                            !.last = answer])
        ELSE ViewersStep([viewers EXCEPT !.last = answer])

ViewersNext ==
    \/ \E c \in Clients : \E docker \in DockerOutcomes : ViewerGet(c, docker)
    \/ \E c \in Clients : ViewerRelease(c)

SpecViewers == ViewersInit /\ [][ViewersNext]_vars

\* no key of the dict has two values
IsDict(d) == \A p, q \in d : p[1] = q[1] => p = q

\* C35: after any sequence of get_or_create_viewer and release_slot calls
\* client_slots and slot_clients are inverse maps of each other, no slot is
\* assigned to two clients, at most as many clients as the pool has slots
\* hold one, and a client that holds a slot gets the same slot again on a
\* repeated request
C35_SlotMapsAreInverse ==
    /\ IsDict(viewers.client_slots)
    /\ IsDict(viewers.slot_clients)
    /\ viewers.slot_clients = {<<p[2], p[1]>> : p \in viewers.client_slots}
    /\ Cardinality(viewers.client_slots) <= PoolSize
    /\ \A p \in viewers.client_slots : p[1] \in Clients /\ p[2] \in Slots
    /\ (viewers.last.op = "get" /\ viewers.last.held # NoSlot) =>
          /\ <<viewers.last.client, viewers.last.held>> \in viewers.client_slots
          /\ viewers.last.error = "" =>
                viewers.last.slot_index = viewers.last.held

\* the pool is full and a client that holds a slot asked again and got it
C35_Witness ==
    /\ Cardinality(viewers.client_slots) = PoolSize
    /\ viewers.last.op = "get"
    /\ viewers.last.held # NoSlot
    /\ viewers.last.error = ""
    /\ viewers.last.slot_index = viewers.last.held

\* C36: when get_or_create_viewer fails with an error (no free slot, image
\* not found, failed creation of the container) the slot maps are as they
\* were before the call: a failed request never takes a slot
C36_FailedRequestTakesNoSlot ==
    [][(viewers'.last.op = "get" /\ viewers'.last.error # "") =>
          /\ viewers'.client_slots = viewers.client_slots
          /\ viewers'.slot_clients = viewers.slot_clients]_vars

====
